---- MODULE Spec2Model ----
(***************************************************************************)
(* Model of the metadata-ingestion workers of backend-masta:               *)
(*   workers/update_metadata.py  (artist enrichment, profile pictures,     *)
(*                                track discovery)                         *)
(*   workers/download_music.py   (audio download)                          *)
(*   app/models.py               (Artist.save, Album.save, Track, tokens)  *)
(*   workers/helpers.py          (download_and_save_image, save_artist_nfo,*)
(*                                write_metadata)                          *)
(* and of the account and follow views of the API:                         *)
(*   app/services/email_service.py, app/serializers.py, app/views.py       *)
(*                                                                         *)
(* Character strings that go through slugify are sequences of one-letter   *)
(* strings; all other strings (external ids, urls) are TLA+ strings.       *)
(* A primary key is the row's index in its table; a deleted user keeps its *)
(* position, marked `deleted`, and follow rows and tokens are removed.     *)
(***************************************************************************)
EXTENDS Naturals, Sequences, FiniteSets, TLC

\* ------------------------------------------------------------------ bounds
\* Number of worker runs (invocations of update_metadata.py) explored.
MaxRuns == 2
\* Longest album listing / track listing a catalog response carries.
MaxListed == 2

\* ------------------------------------------------------------ input values
None == "None"

NameA == <<"A", "!">>            \* slugify -> "a"
NameB == <<"a", " ", "B">>       \* slugify -> "a-b"
Blank == <<>>
CatalogNames == {NameA, NameB}

TitleX == <<"A">>                \* slugify -> "a" (same slug as NameA)
TitleY == <<"B", "-">>           \* slugify -> "b"

ArtistIds == {"UC1", "UC2", "UC3"}
AlbumIds == {"b1", "b2"}
VideoIds == {"v1", "v2"}
Flags == {"name", "banner", "album", "pp", "tracks"}

\* ---------------------------------------------------------------- slugify
\* django.utils.text.slugify as called by Artist.save / Album.save:
\*   value = re.sub(r"[^\w\s-]", "", value.lower())
\*   return re.sub(r"[-\s]+", "-", value).strip("-_")
Lower(c) == IF c = "A" THEN "a" ELSE IF c = "B" THEN "b" ELSE c

IsWordChar(c) == c \in {"a", "b", "_", "0", "1", "2", "3", "4", "5", "6", "7", "8", "9"}
IsSep(c) == c \in {"-", " "}

RECURSIVE LowerKeep(_)
LowerKeep(s) ==
    IF s = <<>> THEN <<>>
    ELSE LET c == Lower(Head(s))
         IN  IF IsWordChar(c) \/ IsSep(c)
             THEN <<c>> \o LowerKeep(Tail(s))
             ELSE LowerKeep(Tail(s))

RECURSIVE Collapse(_)
Collapse(s) ==
    IF s = <<>> THEN <<>>
    ELSE IF IsSep(Head(s))
         THEN IF Len(s) > 1 /\ IsSep(s[2])
              THEN Collapse(Tail(s))
              ELSE <<"-">> \o Collapse(Tail(s))
         ELSE <<Head(s)>> \o Collapse(Tail(s))

RECURSIVE StripLeft(_)
StripLeft(s) ==
    IF s # <<>> /\ Head(s) \in {"-", "_"} THEN StripLeft(Tail(s)) ELSE s

RECURSIVE StripRight(_)
StripRight(s) ==
    IF s # <<>> /\ s[Len(s)] \in {"-", "_"}
    THEN StripRight(SubSeq(s, 1, Len(s) - 1))
    ELSE s

slugify(value) == StripRight(StripLeft(Collapse(LowerKeep(value))))

\* str(i) of the f-string f"{base_slug}-{i}"
DigitChar(d) == <<"0", "1", "2", "3", "4", "5", "6", "7", "8", "9">>[d + 1]

RECURSIVE IntStr(_)
IntStr(i) ==
    IF i < 10 THEN <<DigitChar(i)>>
    ELSE IntStr(i \div 10) \o <<DigitChar(i % 10)>>

\* The while loop of Artist.save / Album.save: both look the candidate up in
\* the Artist table (Album.save line 204 queries Artist.objects too).
RECURSIVE UniqueSlug(_, _, _)
UniqueSlug(arts, base_slug, i) ==
    LET slug == IF i = 0 THEN base_slug ELSE base_slug \o <<"-">> \o IntStr(i)
    IN  IF \E k \in 1..Len(arts) : arts[k].slug = slug
        THEN UniqueSlug(arts, base_slug, i + 1)
        ELSE slug


\* ------------------------------------------------------------------ state
VARIABLES
    artists,   \* table app_artist: sequence of rows, pk = index
    albums,    \* table app_album
    tracks,    \* table app_track (featured = the m2m featured_artists)
    args,      \* the command-line flags of the running worker
    pc,        \* position of the worker script
    queue,     \* rows the current for-loop has still to visit (head = current)
    k,         \* entries of the current catalog listing already consumed
    runs,      \* worker runs started so far
    passes,    \* passes the current run has entered
    sel,       \* per pass, the rows its queryset selected in the current run
    ev,        \* side effects of the unit being processed, in order
    catalog,   \* what the external catalog can answer (never written)
    audio,     \* the audio file write_metadata was last called on, and its tags
    web        \* accounts side: the user, the token tables, clock, last response

vars == <<artists, albums, tracks, args, pc, queue, k, runs, passes, sel, ev, catalog, audio, web>>

Event(op, arg) == [op |-> op, arg |-> arg]

\* --------------------------------------------------------------- app.models
\* Artist.save (models.py 161-172): the slug is generated when `not self.slug`.
ArtistSlugAlways(arts, obj) == UniqueSlug(arts, slugify(obj.name), 0)

ArtistSlugFor(arts, obj) ==
    IF obj.slug = <<>>
    THEN UniqueSlug(arts, slugify(obj.name), 0)
    ELSE obj.slug

\* obj.save() for the row pk (an insert when pk is new).
ArtistSave(arts, pk, obj) ==
    LET row == [obj EXCEPT !.slug = ArtistSlugFor(arts, obj)]
    IN  IF pk <= Len(arts) THEN [arts EXCEPT ![pk] = row] ELSE Append(arts, row)

NewArtist(yt_id, name, parse_tracks) ==
    [name |-> name, bio |-> "", profile_picture |-> "", banner |-> "",
     parse_tracks |-> parse_tracks, slug |-> <<>>, yt_id |-> yt_id,
     followers |-> 0]

\* Artist.objects.create(...)
ArtistCreate(arts, obj) == ArtistSave(arts, Len(arts) + 1, obj)

\* Album.save (models.py 197-208): same loop, against the Artist table.
AlbumSlugFor(arts, obj) ==
    IF obj.slug = <<>>
    THEN UniqueSlug(arts, slugify(obj.title), 0)
    ELSE obj.slug

AlbumSave(arts, albs, pk, obj) ==
    LET row == [obj EXCEPT !.slug = AlbumSlugFor(arts, obj)]
    IN  IF pk <= Len(albs) THEN [albs EXCEPT ![pk] = row] ELSE Append(albs, row)

NewAlbum(title, yt_id, year, artist) ==
    [title |-> title, yt_id |-> yt_id, release_date |-> <<year, 1, 1>>,
     artist |-> artist, track_count |-> 0, cover |-> "", slug |-> <<>>,
     album_type |-> "album"]

NewTrack(yt_id, title, order, duration, album) ==
    [yt_id |-> yt_id, title |-> title, order |-> order, duration |-> duration,
     album |-> album, featured |-> {}, track_file |-> ""]

\* Reverse relations used by the querysets.
AlbumsOf(albs, a) == {i \in 1..Len(albs) : albs[i].artist = a}
TracksOf(trks, b) == {i \in 1..Len(trks) : trks[i].album = b}

\* A queryset's rows in primary-key order.
RowsWhere(n, Test(_)) == SelectSeq([i \in 1..n |-> i], Test)
Range(s) == {s[i] : i \in 1..Len(s)}


\* ------------------------------------------------- update_metadata: control
\* The artist-selection Q object (update_metadata.py 37-45), tested on row a.
QName(arts, a) == arts[a].name = Blank
QBanner(arts, a) == arts[a].banner = ""
QAlbum(arts, albs, a) == AlbumsOf(albs, a) = {} /\ arts[a].parse_tracks

ArtistQueryAny(flags, arts, albs, a) ==
    \/ "name" \in flags /\ QName(arts, a)
    \/ "banner" \in flags /\ QBanner(arts, a)
    \/ "album" \in flags /\ QAlbum(arts, albs, a)

ArtistQuery(flags, arts, albs, a) ==
    LET q0 == TRUE
        q1 == IF "name" \in flags THEN q0 /\ QName(arts, a) ELSE q0
        q2 == IF "banner" \in flags THEN q1 /\ QBanner(arts, a) ELSE q1
        q3 == IF "album" \in flags THEN q2 /\ QAlbum(arts, albs, a) ELSE q2
    IN  q3

NoSel == [artist |-> {}, pp |-> {}, tracks |-> {}, download |-> {}]

Ctl(p, q, ps, sl) == [pc |-> p, queue |-> q, passes |-> ps, sel |-> sl]

\* An uncaught exception ends the process where it stands.
Crash(q, ps, sl) == Ctl("crashed", q, ps, sl)

\* `if args.tracks:` (line 128) and the queryset of line 129.
EnterTracks(flags, albs, trks, ps, sl) ==
    IF "tracks" \in flags
    THEN LET q == RowsWhere(Len(albs), LAMBDA b : TracksOf(trks, b) = {})
         IN  Ctl(IF q = <<>> THEN "done" ELSE "album_fetch", q,
                 ps \cup {"tracks"}, [sl EXCEPT !.tracks = Range(q)])
    ELSE Ctl("done", <<>>, ps, sl)

\* `if args.pp:` (line 106) and the queryset of line 107.
EnterPP(flags, arts, albs, trks, ps, sl) ==
    IF "pp" \in flags
    THEN LET q == RowsWhere(Len(arts), LAMBDA a : arts[a].profile_picture = "")
             ps2 == ps \cup {"pp"}
             sl2 == [sl EXCEPT !.pp = Range(q)]
         IN  IF q = <<>>
             THEN EnterTracks(flags, albs, trks, ps2, sl2)
             ELSE Ctl("pp", q, ps2, sl2)
    ELSE EnterTracks(flags, albs, trks, ps, sl)

\* `if args.name or args.banner or args.album:` (line 36) and lines 37-47.
EnterArtists(flags, arts, albs, trks) ==
    IF "name" \in flags \/ "banner" \in flags \/ "album" \in flags
    THEN LET q == RowsWhere(Len(arts), LAMBDA a : ArtistQuery(flags, arts, albs, a))
             sl2 == [NoSel EXCEPT !.artist = Range(q)]
         IN  IF q = <<>>
             THEN EnterPP(flags, arts, albs, trks, {"artist"}, sl2)
             ELSE Ctl("artist_fetch", q, {"artist"}, sl2)
    ELSE EnterPP(flags, arts, albs, trks, {}, NoSel)

\* End of one iteration of `for artist in artists_to_fetch` (line 51).
NextArtist(arts, albs, trks) ==
    IF Len(queue) > 1
    THEN Ctl("artist_fetch", Tail(queue), passes, sel)
    ELSE EnterPP(args, arts, albs, trks, passes, sel)

\* End of one iteration of `for artist in artists` (line 116).
NextPP(albs, trks) ==
    IF Len(queue) > 1
    THEN Ctl("pp", Tail(queue), passes, sel)
    ELSE EnterTracks(args, albs, trks, passes, sel)

\* End of one iteration of `for album in albums` (line 131).
NextAlbum ==
    IF Len(queue) > 1
    THEN Ctl("album_fetch", Tail(queue), passes, sel)
    ELSE Ctl("done", <<>>, passes, sel)

Goto(c) ==
    /\ pc' = c.pc
    /\ queue' = c.queue
    /\ passes' = c.passes
    /\ sel' = c.sel

\* The log of a unit is dropped when control reaches the next unit or the end.
EvAfter(c, e) ==
    IF c.pc \in {"artist_fetch", "pp", "album_fetch", "done"} THEN <<>> ELSE e

\* The process ends (normally or by an uncaught exception): nothing of it
\* remains but the rows it stored.
Exit ==
    /\ pc \in {"done", "crashed"}
    /\ pc' = "idle"
    /\ args' = {}
    /\ queue' = <<>>
    /\ k' = 0
    /\ passes' = {}
    /\ sel' = NoSel
    /\ ev' = <<>>
    /\ UNCHANGED <<artists, albums, tracks, runs, catalog, audio, web>>

\* ------------------------------------------------------ catalog responses
\* A `thumbnails` value: the key may be missing; otherwise a list of urls.
Thumbs(present, list) == [present |-> present, list |-> list]
Prefix(s, n) == SubSeq(s, 1, n)

ArtistThumbs ==
    {Thumbs(FALSE, <<>>)} \cup {Thumbs(TRUE, Prefix(<<"u0", "u1", "u2">>, n)) : n \in 0..3}
CoverThumbs ==
    {Thumbs(FALSE, <<>>)} \cup {Thumbs(TRUE, l) : l \in {<<>>, <<"z">>, <<"x", "y">>}}

\* Entries of get_artist(...)["albums"]["results"]; "type" carries the year.
AlbumEntries ==
    [browseId : AlbumIds, title : {TitleX}, type : {2020}, thumbnails : CoverThumbs]

\* Entries of get_artist_albums(browseId, params).
SingleEntries ==
    [browseId : AlbumIds, title : {TitleX}, type : {"Single"}, year : {2021},
     thumbnails : CoverThumbs]

\* helpers.download_and_save_image (helpers.py 10-18): what the call does for
\* this url when the HTTP request succeeds (ok) or raises.
ImageOutcome(url, ok) ==
    IF url = None THEN "skip" ELSE IF ok THEN "saved" ELSE "raise"

\* thumbnails[-1].get("url") with the default [{}] for a missing key
\* (lines 83, 100, 138): "IndexError" for an empty list.
FirstThumbUrl(th) ==
    IF ~th.present THEN None
    ELSE IF th.list = <<>> THEN "IndexError"
    ELSE th.list[1]

LastThumbUrl(th) ==
    IF ~th.present THEN None
    ELSE IF th.list = <<>> THEN "IndexError"
    ELSE th.list[Len(th.list)]


\* metadata.get("trackCount", 0): the key may be missing.
TrackCounts == {[present |-> FALSE, value |-> 0], [present |-> TRUE, value |-> 2]}

\* Credits of a track entry: {"id": ..., "name": ...}.
Credits == [id : {None, "UC2", "UC3"}, name : CatalogNames]
CreditLists ==
    {<<>>} \cup {<<c>> : c \in Credits}
           \cup {<<c, c>> : c \in {x \in Credits : x.id = "UC3"}}
           \cup {<<[id |-> "UC2", name |-> NameA], [id |-> "UC3", name |-> NameB]>>}

\* title / trackNumber / duration_seconds of a track entry.
TrackVersions ==
    {[title |-> TitleX, trackNumber |-> 1, duration_seconds |-> 100],
     [title |-> TitleY, trackNumber |-> 2, duration_seconds |-> 200]}

TrackEntries == [videoId : VideoIds, data : TrackVersions, artists : CreditLists]

\* The catalog the workers talk to: the values its responses may carry.
RichCatalog ==
    [names |-> CatalogNames, titles |-> {TitleY}, artistThumbs |-> ArtistThumbs,
     coverThumbs |-> CoverThumbs, albumEntries |-> AlbumEntries,
     singleEntries |-> SingleEntries, trackCounts |-> TrackCounts,
     trackEntries |-> TrackEntries]

\* A catalog with one answer per question.
ThinCatalog ==
    [names |-> {NameA}, titles |-> {TitleY},
     artistThumbs |-> {Thumbs(TRUE, <<"u0", "u1">>)},
     coverThumbs |-> {Thumbs(TRUE, <<"x", "y">>)},
     albumEntries |-> {e \in AlbumEntries : e.thumbnails = Thumbs(TRUE, <<"x", "y">>)},
     singleEntries |-> {e \in SingleEntries : e.thumbnails = Thumbs(TRUE, <<"x", "y">>)},
     trackCounts |-> {[present |-> TRUE, value |-> 2]},
     trackEntries |-> {e \in TrackEntries :
                          /\ e.data.trackNumber = 1
                          /\ e.artists = <<[id |-> "UC3", name |-> NameB]>>}]

\* ------------------------------------------------------- accounts, audio
\* The tags of a file no call has tagged (as the downloader leaves it).
NoTags == [key \in {} |-> <<>>]
\* No audio file has been tagged yet.
NoAudio == [written |-> FALSE, tags |-> NoTags]

\* The pks of the users that follow artists, and a request of one of them
\* that is not (or no longer) being served: method, pk and status are those
\* of its last request.
Users == {1, 2, 3}
NoRequest == [pc |-> "idle", method |-> "", pk |-> 0, seen |-> 0, status |-> 0]

\* A User row with its UserProfile, UserPreferences and
\* NotificationPreference rows (each OneToOne, on_delete=CASCADE); the pk is
\* the position in the table, and `deleted` marks a row user.delete()
\* removed. RegisterSerializer.create stores the user and the profile only;
\* the profile holds email_verified and the name of the avatar file.
UserEmail == "user@x"
NewUser(username, email, is_active, verified) ==
    [username |-> username, email |-> email, first_name |-> "",
     is_active |-> is_active, password |-> "pw0", deleted |-> FALSE,
     profile |-> [exists |-> TRUE, email_verified |-> verified, avatar |-> ""],
     preferences |-> FALSE, notifications |-> FALSE]

\* No UserProfile row.
NoProfile == [exists |-> FALSE, email_verified |-> FALSE, avatar |-> ""]

\* The tables of the web application: tokens and follow rows name their user
\* by pk; `calls` holds the handlers between two of their statements, `hits`
\* the requests the anonymous client made within the last minute, `resets`
\* what reset_password_view did so far, in order (a record, not a table).
WebWith(users, etokens) ==
    [users |-> users, etokens |-> etokens, rtokens |-> <<>>,
     eissued |-> Len(etokens), rissued |-> 0, calls |-> <<>>, hits |-> 0,
     resets |-> <<>>,
     follows |-> <<>>, reqs |-> [u \in Users |-> NoRequest], started |-> 0,
     now |-> 0, ticks |-> 0, out |-> [view |-> "", status |-> 0, body |-> ""]]

\* User `user` as RegisterView leaves it: inactive, with a profile and the
\* verification token of the first email (hours count from registration);
\* user u1 is an account that staff activated and marked verified, and that
\* has just asked for a password reset (token r1, good for an hour).
WebInit ==
    [WebWith(<<NewUser("user", UserEmail, FALSE, FALSE),
               NewUser("u1", "u1@x", TRUE, TRUE)>>,
             <<[token |-> "e1", user |-> 1, expires_at |-> 24, is_used |-> FALSE]>>)
        EXCEPT !.rtokens = <<[token |-> "r1", user |-> 2, expires_at |-> 1,
                              is_used |-> FALSE]>>,
               !.rissued = 1]

\* The three accounts that use the follow view, all active.
FollowInit ==
    WebWith(<<NewUser("u1", "u1@x", TRUE, TRUE), NewUser("u2", "u2@x", TRUE, TRUE),
              NewUser("u3", "u3@x", TRUE, TRUE)>>, <<>>)

\* ---------------------------------------------------------------- initial
\* Rows as the admin site stores them before any worker run: every row went
\* through its model's save().
SeedArtists(n1, p1, n2, p2) ==
    ArtistCreate(
        ArtistCreate(<<>>, NewArtist("UC1", n1, p1)),
        [NewArtist("UC2", n2, p2) EXCEPT !.banner = "old.jpg"])

\* Album b1 belongs to artist 2; album b2, when stored, to artist 1.
SeedAlbums(arts, two) ==
    LET albs1 == AlbumSave(arts, <<>>, 1,
                     [NewAlbum(TitleX, "b1", 2019, 2) EXCEPT !.cover = "old.jpg"])
    IN  IF two
        THEN AlbumSave(arts, albs1, 2, NewAlbum(TitleX, "b2", 2019, 1))
        ELSE albs1

\* A stock says whether album b2 is stored and whether b1 has its track v1.
Stock(two, t) == [two |-> two, t |-> t]

InitBase(N1, N2, P1, P2, Stocks, cat, w) ==
    \E n1 \in N1, n2 \in N2, p1 \in P1, p2 \in P2, st \in Stocks :
        /\ artists = SeedArtists(n1, p1, n2, p2)
        /\ albums = SeedAlbums(artists, st.two)
        /\ tracks = IF st.t THEN <<NewTrack("v1", TitleX, 1, 100, 1)>> ELSE <<>>
        /\ args = {}
        /\ pc = "idle"
        /\ queue = <<>>
        /\ k = 0
        /\ runs = 0
        /\ passes = {}
        /\ sel = NoSel
        /\ ev = <<>>
        /\ catalog = cat
        /\ audio = NoAudio
        /\ web = w

InitWith(N1, N2, P1, P2, Stocks, cat) == InitBase(N1, N2, P1, P2, Stocks, cat, WebInit)

Init ==
    InitWith({Blank, NameA}, {NameB}, {TRUE}, {FALSE},
             {Stock(FALSE, FALSE), Stock(TRUE, TRUE)}, ThinCatalog)

\* A new process: argparse (28-34), then the first pass whose flag is set.
StartRunWith(FlagSets, max) ==
    /\ pc = "idle"
    /\ runs < max
    /\ \E flags \in FlagSets :
        /\ args' = flags
        /\ Goto(EnterArtists(flags, artists, albums, tracks))
    /\ runs' = runs + 1
    /\ k' = 0
    /\ ev' = <<>>
    /\ UNCHANGED <<artists, albums, tracks, catalog, audio, web>>

\* Album.objects.filter(yt_id=...).exists() (line 74).
AlbumExistsNever(albs, yt_id) == FALSE

AlbumExists(albs, yt_id) == \E i \in 1..Len(albs) : albs[i].yt_id = yt_id

\* The fields of class Album (models.py 186-195). Model.__init__ raises
\* TypeError for a keyword argument that names no field.
AlbumFields ==
    {"title", "cover", "track_count", "release_date", "album_type", "slug",
     "artist", "yt_id"}

\* Keyword arguments of the two Album.objects.create calls (76-79, 93-97).
RegularAlbumKwargs == {"title", "yt_id", "release_date", "artist"}
SingleAlbumKwargs == {"title", "type", "yt_id", "release_date", "artist"}

CreateAcceptsType(kwargs) == kwargs \subseteq AlbumFields \cup {"type"}
CreateAccepts(kwargs) == kwargs \subseteq AlbumFields

\* Album.objects.create(...) followed by the explicit .save() (81, 99).
AlbumCreate(arts, albs, obj) ==
    LET albs1 == AlbumSave(arts, albs, Len(albs) + 1, obj)
    IN  AlbumSave(arts, albs1, Len(albs1), albs1[Len(albs1)])

\* download_and_save_image(album.cover, thumbnails[-1].get("url")) for the
\* album row b: the new table, and how the call ended.
CoverStepUndoesCreate(arts, albs, b, th, ok) ==
    LET url == LastThumbUrl(th)
        undone == SubSeq(albs, 1, Len(albs) - 1)
    IN  IF url = "IndexError"
        THEN [albums |-> undone, end |-> "IndexError", url |-> url]
        ELSE IF ImageOutcome(url, ok) = "skip"
        THEN [albums |-> albs, end |-> "skip", url |-> url]
        ELSE IF ImageOutcome(url, ok) = "raise"
        THEN [albums |-> undone, end |-> "HTTPError", url |-> url]
        ELSE [albums |-> AlbumSave(arts, albs, b, [albs[b] EXCEPT !.cover = url]),
              end |-> "saved", url |-> url]

CoverStep(arts, albs, b, th, ok) ==
    LET url == LastThumbUrl(th)
    IN  IF url = "IndexError"
        THEN [albums |-> albs, end |-> "IndexError", url |-> url]
        ELSE IF ImageOutcome(url, ok) = "skip"
        THEN [albums |-> albs, end |-> "skip", url |-> url]
        ELSE IF ImageOutcome(url, ok) = "raise"
        THEN [albums |-> albs, end |-> "HTTPError", url |-> url]
        ELSE [albums |-> AlbumSave(arts, albs, b, [albs[b] EXCEPT !.cover = url]),
              end |-> "saved", url |-> url]

CoverRaised(r) == r.end \in {"IndexError", "HTTPError"}

\* The log after a cover step.
CoverLog(e, r) ==
    IF CoverRaised(r) THEN Append(e, Event(r.end, "cover"))
    ELSE IF r.end = "saved" THEN Append(e, Event("cover", r.url))
    ELSE e

\* ----------------------------------------------------------- step endings
\* Control moves to c with the unit's log e.
Step(c, e) == Goto(c) /\ ev' = EvAfter(c, e)
\* The step stays inside its loop.
Stay(e) == ev' = e /\ UNCHANGED <<pc, queue, passes, sel>>
\* The step lets an exception escape.
Raise(e) == Goto(Crash(queue, passes, sel)) /\ ev' = e

\* ------------------------------------------- update_metadata: artist pass
\* Lines 53-56: get_artist raises; the bare except skips the artist.
ArtistFetchUncaught ==
    /\ pc = "artist_fetch"
    /\ Raise(<<Event("get_artist_raised", artists[Head(queue)].yt_id)>>)
    /\ UNCHANGED <<artists, albums, tracks, args, k, runs, catalog, audio, web>>

ArtistFetchFails ==
    /\ pc = "artist_fetch"
    /\ Goto(NextArtist(artists, albums, tracks))
    /\ ev' = <<Event("get_artist_raised", artists[Head(queue)].yt_id)>>
    /\ UNCHANGED <<artists, albums, tracks, args, k, runs, catalog, audio, web>>

\* Lines 54, 58-60: the response's name and description are stored.
ArtistFetchOk ==
    /\ pc = "artist_fetch"
    /\ \E name \in catalog.names :
        LET a == Head(queue)
            obj == [artists[a] EXCEPT !.name = name, !.bio = "description"]
        IN  /\ artists' = ArtistSave(artists, a, obj)
            /\ ev' = <<Event("get_artist", obj.yt_id), Event("save", obj.yt_id)>>
    /\ pc' = "artist_nfo"
    /\ UNCHANGED <<albums, tracks, args, queue, k, runs, passes, sel, catalog, audio, web>>

\* Line 63: save_artist_nfo (helpers.py 39-49); a filesystem error is not caught.
ArtistNfoSkipped ==
    /\ pc = "artist_nfo"
    /\ Step(Ctl("artist_banner", queue, passes, sel), ev)
    /\ UNCHANGED <<artists, albums, tracks, args, k, runs, catalog, audio, web>>

ArtistNfo ==
    /\ pc = "artist_nfo"
    /\ \E ok \in BOOLEAN :
        IF ok
        THEN Step(Ctl("artist_banner", queue, passes, sel),
                  Append(ev, Event("nfo", artists[Head(queue)].yt_id)))
        ELSE Raise(Append(ev, Event("OSError", "nfo")))
    /\ UNCHANGED <<artists, albums, tracks, args, k, runs, catalog, audio, web>>

\* After the banner step: `if artist.parse_tracks:` (line 70).
AfterBanner(arts) ==
    IF arts[Head(queue)].parse_tracks
    THEN Ctl("artist_albums", queue, passes, sel)
    ELSE NextArtist(arts, albums, tracks)

\* How many entries metadata.get("thumbnails") has ("absent": no such key).
ThumbCount(th) ==
    IF ~th.present THEN "absent" ELSE <<"0", "1", "2", "3">>[Len(th.list) + 1]

\* metadata.get("thumbnails") of line 65 is read: the answer stays at the end
\* of the log until the banner step has used it.
ArtistThumbsRead ==
    /\ pc = "artist_banner"
    /\ \E th \in catalog.artistThumbs :
          /\ ev' = Append(ev, Event("thumbnails", ThumbCount(th)))
          /\ pc' = "artist_banner_url"
    /\ UNCHANGED <<artists, albums, tracks, args, queue, k, runs, passes, sel, catalog, audio, web>>

ThumbsRead == CHOOSE th \in catalog.artistThumbs : ThumbCount(th) = ev[Len(ev)].arg
Front(s) == SubSeq(s, 1, Len(s) - 1)

\* The test of line 65, once len() has its list.
BannerGuardAlways(th, banner) == Len(th.list) >= 0
BannerGuard(th, banner) == Len(th.list) > 0 /\ banner = ""

\* metadata.get("thumbnails", [{}])[1].get("url") (line 66).
BannerUrlLast(th) == th.list[Len(th.list)]
BannerUrl(th) == th.list[2]

\* Lines 65-67 (and the test of line 70).
ArtistBanner ==
    /\ pc = "artist_banner_url"
    /\ \E ok \in BOOLEAN :
        LET a == Head(queue)
            th == ThumbsRead
            e == Front(ev)
        IN  IF ~th.present
            THEN \* len(None)
                 /\ Raise(Append(e, Event("TypeError", "thumbnails")))
                 /\ UNCHANGED artists
            ELSE IF BannerGuard(th, artists[a].banner)
            THEN IF Len(th.list) < 2
                 THEN \* thumbnails[1]
                      /\ Raise(Append(e, Event("IndexError", "thumbnails")))
                      /\ UNCHANGED artists
                 ELSE IF ImageOutcome(BannerUrl(th), ok) = "raise"
                 THEN /\ Raise(Append(e, Event("HTTPError", BannerUrl(th))))
                      /\ UNCHANGED artists
                 ELSE LET arts == ArtistSave(artists, a,
                                     [artists[a] EXCEPT !.banner = BannerUrl(th)])
                      IN  /\ artists' = arts
                          /\ Step(AfterBanner(arts),
                                  Append(e, Event("banner", BannerUrl(th))))
            ELSE /\ Step(AfterBanner(artists), e)
                 /\ UNCHANGED artists
    /\ UNCHANGED <<albums, tracks, args, k, runs, catalog, audio, web>>

\* One iteration of the loop of lines 73-83.
ArtistAlbumEntry ==
    /\ pc = "artist_albums"
    /\ k < MaxListed
    /\ \E album \in catalog.albumEntries, ok \in BOOLEAN :
        LET a == Head(queue)
        IN  IF AlbumExists(albums, album.browseId)
            THEN /\ Stay(ev)
                 /\ UNCHANGED albums
            ELSE IF ~CreateAccepts(RegularAlbumKwargs)
            THEN /\ Raise(Append(ev, Event("TypeError", "Album()")))
                 /\ UNCHANGED albums
            ELSE LET albs == AlbumCreate(artists, albums,
                                 NewAlbum(album.title, album.browseId, album.type, a))
                     r == CoverStep(artists, albs, Len(albs), album.thumbnails, ok)
                     e == CoverLog(Append(ev, Event("album_create", album.browseId)), r)
                 IN  /\ albums' = r.albums
                     /\ IF CoverRaised(r) THEN Raise(e) ELSE Stay(e)
    /\ k' = k + 1
    /\ UNCHANGED <<artists, tracks, args, runs, catalog, audio, web>>

\* The listing is exhausted: on to the singles (line 85).
ArtistAlbumsEnd ==
    /\ pc = "artist_albums"
    /\ pc' = "artist_singles"
    /\ k' = 0
    /\ UNCHANGED <<artists, albums, tracks, args, queue, runs, passes, sel, ev, catalog, audio, web>>

\* `metadata.get("singles", {}).get("browseId") and args.tracks` (line 87).
SinglesGuardIdOnly(hasSingles, flags) == hasSingles
SinglesGuard(hasSingles, flags) == hasSingles /\ "tracks" \in flags

\* Lines 87-90: the guard and the fetch of the singles listing; the log notes
\* whether the response carried a singles browseId.
ArtistSingles ==
    /\ pc = "artist_singles"
    /\ \E hasSingles \in BOOLEAN, ok \in BOOLEAN :
        LET e == Append(ev, Event("singles", IF hasSingles THEN "browseId" ELSE "absent"))
        IN  IF SinglesGuard(hasSingles, args)
            THEN IF ok
                 THEN Step(Ctl("single_loop", queue, passes, sel),
                           Append(e, Event("get_artist_albums", "singles")))
                 ELSE Raise(Append(e, Event("get_artist_albums_raised", "singles")))
            ELSE Step(NextArtist(artists, albums, tracks), e)
    /\ k' = 0
    /\ UNCHANGED <<artists, albums, tracks, args, runs, catalog, audio, web>>

\* One iteration of the loop of lines 91-100: no exists() test here, and the
\* create call passes `type`, which is not a field of Album.
SingleEntry ==
    /\ pc = "single_loop"
    /\ k < MaxListed
    /\ \E single \in catalog.singleEntries, ok \in BOOLEAN :
        LET a == Head(queue)
        IN  IF ~CreateAccepts(SingleAlbumKwargs)
            THEN /\ Raise(Append(ev, Event("TypeError", "Album()")))
                 /\ UNCHANGED albums
            ELSE LET obj == [NewAlbum(single.title, single.browseId, single.year, a)
                                EXCEPT !.album_type = "single"]
                     albs == AlbumCreate(artists, albums, obj)
                     r == CoverStep(artists, albs, Len(albs), single.thumbnails, ok)
                     e == CoverLog(Append(ev, Event("single_create", single.browseId)), r)
                 IN  /\ albums' = r.albums
                     /\ IF CoverRaised(r) THEN Raise(e) ELSE Stay(e)
    /\ k' = k + 1
    /\ UNCHANGED <<artists, tracks, args, runs, catalog, audio, web>>

\* The singles listing is exhausted: next artist.
SinglesEnd ==
    /\ pc = "single_loop"
    /\ Step(NextArtist(artists, albums, tracks), ev)
    /\ k' = 0
    /\ UNCHANGED <<artists, albums, tracks, args, runs, catalog, audio, web>>

\* ---------------------------------- update_metadata: profile-picture pass
\* One iteration of the loop of lines 116-124.
PPUnit ==
    /\ pc = "pp"
    /\ \E info \in {"raise", "no_thumbnails", "thumbnails"}, ok \in BOOLEAN :
        LET a == Head(queue)
        IN  IF info = "raise"
            THEN /\ Raise(<<Event("extract_info_raised", artists[a].yt_id)>>)
                 /\ UNCHANGED artists
            ELSE IF info = "no_thumbnails"
            THEN /\ Step(NextPP(albums, tracks), <<>>)
                 /\ UNCHANGED artists
            ELSE IF ImageOutcome("p0", ok) = "raise"
            THEN /\ Raise(<<Event("HTTPError", "p0")>>)
                 /\ UNCHANGED artists
            ELSE LET arts1 == ArtistSave(artists, a,
                                  [artists[a] EXCEPT !.profile_picture = "p0"])
                     arts2 == ArtistSave(arts1, a, arts1[a])
                 IN  /\ artists' = arts2
                     /\ Step(NextPP(albums, tracks), <<>>)
    /\ UNCHANGED <<albums, tracks, args, k, runs, catalog, audio, web>>


\* --------------------------------- update_metadata: track-discovery pass
TrackLookup(trks, yt_id) == {i \in 1..Len(trks) : trks[i].yt_id = yt_id}
Min(S) == CHOOSE x \in S : \A y \in S : x <= y

\* Track.objects.get_or_create(yt_id=..., defaults={...}) (lines 141-149).
TrackAlwaysCreate(trks, yt_id, defaults) ==
    [tracks |-> Append(trks, NewTrack(yt_id, defaults.title, defaults.order,
                                      defaults.duration, defaults.album)),
     pk |-> Len(trks) + 1, created |-> TRUE]

TrackUpdateOrCreate(trks, yt_id, defaults) ==
    IF TrackLookup(trks, yt_id) # {}
    THEN LET t == Min(TrackLookup(trks, yt_id))
         IN  [tracks |-> [trks EXCEPT ![t].title = defaults.title,
                                      ![t].order = defaults.order,
                                      ![t].duration = defaults.duration,
                                      ![t].album = defaults.album],
              pk |-> t, created |-> FALSE]
    ELSE TrackAlwaysCreate(trks, yt_id, defaults)

TrackGetOrCreate(trks, yt_id, defaults) ==
    IF TrackLookup(trks, yt_id) # {}
    THEN [tracks |-> trks, pk |-> Min(TrackLookup(trks, yt_id)), created |-> FALSE]
    ELSE [tracks |-> Append(trks, NewTrack(yt_id, defaults.title, defaults.order,
                                           defaults.duration, defaults.album)),
          pk |-> Len(trks) + 1, created |-> TRUE]

ArtistLookup(arts, yt_id) == {i \in 1..Len(arts) : arts[i].yt_id = yt_id}

\* Artist.objects.get_or_create(yt_id=..., defaults={name, parse_tracks: False})
\* (lines 153-159).
ArtistGetOrCreate(arts, yt_id, name) ==
    IF ArtistLookup(arts, yt_id) # {}
    THEN [artists |-> arts, pk |-> Min(ArtistLookup(arts, yt_id))]
    ELSE [artists |-> ArtistCreate(arts, NewArtist(yt_id, name, FALSE)),
          pk |-> Len(arts) + 1]

\* The test of line 152 on one credit.
IsFeaturedCredit(credit, primary_name) ==
    credit.id # None /\ credit.name # primary_name

\* `artist not in track_obj.featured_artists.all()` (line 160), negated.
AttachedNever(trks, t, pk) == FALSE
IsAttached(trks, t, pk) == pk \in trks[t].featured

\* The loop of lines 151-161 over the credits of one track entry, for the
\* track row t of an album whose artist is stored under primary_name:
\* the tables, and the external ids featured_artists.add was called with.
RECURSIVE FeatureLoop(_, _, _, _, _)
FeatureLoop(arts, trks, t, credits, primary_name) ==
    IF credits = <<>> THEN [artists |-> arts, tracks |-> trks, added |-> <<>>]
    ELSE LET credit == Head(credits)
         IN  IF IsFeaturedCredit(credit, primary_name)
             THEN LET g == ArtistGetOrCreate(arts, credit.id, credit.name)
                  IN  IF IsAttached(trks, t, g.pk)
                      THEN FeatureLoop(g.artists, trks, t, Tail(credits), primary_name)
                      ELSE LET trks2 == [trks EXCEPT ![t].featured = @ \cup {g.pk}]
                               r == FeatureLoop(g.artists, trks2, t, Tail(credits),
                                                primary_name)
                           IN  [r EXCEPT !.added = <<credit.id>> \o @]
             ELSE FeatureLoop(arts, trks, t, Tail(credits), primary_name)

\* Line 132: get_album raises; nothing catches it.
AlbumFetchFails ==
    /\ pc = "album_fetch"
    /\ Raise(<<Event("get_album_raised", albums[Head(queue)].yt_id)>>)
    /\ UNCHANGED <<artists, albums, tracks, args, k, runs, catalog, audio, web>>

\* Lines 132-135.
AlbumFetchOk ==
    /\ pc = "album_fetch"
    /\ \E title \in catalog.titles, trackCount \in catalog.trackCounts :
        LET b == Head(queue)
            obj == [albums[b] EXCEPT !.title = title,
                                     !.track_count = trackCount.value]
        IN  /\ albums' = AlbumSave(artists, albums, b, obj)
            /\ ev' = <<Event("get_album", obj.yt_id), Event("save", obj.yt_id)>>
    /\ pc' = "album_cover"
    /\ UNCHANGED <<artists, tracks, args, queue, k, runs, passes, sel, catalog, audio, web>>

\* Lines 137-138.
AlbumCover ==
    /\ pc = "album_cover"
    /\ \E th \in catalog.coverThumbs, ok \in BOOLEAN :
        LET b == Head(queue)
            r == CoverStep(artists, albums, b, th, ok)
            c == Ctl("album_tracks", queue, passes, sel)
        IN  IF albums[b].cover # ""
            THEN /\ Step(c, ev)
                 /\ UNCHANGED albums
            ELSE /\ albums' = r.albums
                 /\ IF CoverRaised(r) THEN Raise(CoverLog(ev, r))
                                      ELSE Step(c, CoverLog(ev, r))
    /\ k' = 0
    /\ UNCHANGED <<artists, tracks, args, runs, catalog, audio, web>>

\* One iteration of the loop of lines 140-161.
TrackEntry ==
    /\ pc = "album_tracks"
    /\ k < MaxListed
    /\ \E track \in catalog.trackEntries :
        LET b == Head(queue)
            g == TrackGetOrCreate(tracks, track.videoId,
                     [title |-> track.data.title, order |-> track.data.trackNumber,
                      duration |-> track.data.duration_seconds, album |-> b])
            r == FeatureLoop(artists, g.tracks, g.pk, track.artists,
                             artists[albums[b].artist].name)
        IN  /\ artists' = r.artists
            /\ tracks' = r.tracks
            /\ Stay(Append(ev, Event(IF g.created THEN "track_create" ELSE "track_get",
                                     track.videoId))
                    \o [i \in 1..Len(r.added) |-> Event("feature_add", r.added[i])])
    /\ k' = k + 1
    /\ UNCHANGED <<albums, args, runs, catalog, audio, web>>

\* The track listing is exhausted (line 162): next album.
TracksEnd ==
    /\ pc = "album_tracks"
    /\ Step(NextAlbum, ev)
    /\ k' = 0
    /\ UNCHANGED <<artists, albums, tracks, args, runs, catalog, audio, web>>

\* ----------------------------------------------------------- specifications
\* Runs of `update_metadata.py --tracks`.
StartTracksRun == StartRunWith({{"tracks"}}, MaxRuns)

InitTracks ==
    InitWith({NameA}, {Blank, NameB}, {TRUE}, {FALSE},
             {Stock(FALSE, FALSE), Stock(TRUE, TRUE)}, RichCatalog)

NextTracks ==
    \/ StartTracksRun
    \/ Exit
    \/ AlbumFetchFails
    \/ AlbumFetchOk
    \/ AlbumCover
    \/ TrackEntry
    \/ TracksEnd

SpecTracks == InitTracks /\ [][NextTracks]_vars

\* Runs with any non-empty choice of --name --banner --album.
ArtistFlagSets == SUBSET {"name", "banner", "album"} \ {{}}

StartArtistRun == StartRunWith(ArtistFlagSets, MaxRuns)

InitArtists ==
    InitWith({Blank, NameA}, {Blank, NameB}, BOOLEAN, BOOLEAN,
             {Stock(FALSE, FALSE), Stock(TRUE, FALSE)}, RichCatalog)

NextArtists ==
    \/ StartArtistRun
    \/ Exit
    \/ ArtistFetchFails
    \/ ArtistFetchOk
    \/ ArtistNfo
    \/ ArtistThumbsRead
    \/ ArtistBanner
    \/ ArtistAlbumEntry
    \/ ArtistAlbumsEnd
    \/ ArtistSingles

SpecArtists == InitArtists /\ [][NextArtists]_vars

\* Runs with any combination of the five flags.
StartRun == StartRunWith(SUBSET Flags, MaxRuns)

Next ==
    \/ StartRun
    \/ Exit
    \/ ArtistFetchFails
    \/ ArtistFetchOk
    \/ ArtistNfo
    \/ ArtistThumbsRead
    \/ ArtistBanner
    \/ ArtistAlbumEntry
    \/ ArtistAlbumsEnd
    \/ ArtistSingles
    \/ SingleEntry
    \/ SinglesEnd
    \/ PPUnit
    \/ AlbumFetchFails
    \/ AlbumFetchOk
    \/ AlbumCover
    \/ TrackEntry
    \/ TracksEnd

Spec == Init /\ [][Next]_vars

\* --------------------------------------------------- helpers.write_metadata
MaxFeatured == 3
NameC == <<"C">>
worker == <<artists, albums, tracks, args, pc, queue, k, runs, passes, sel, ev, catalog>>

\* All sequences over S of length 0..n.
RECURSIVE SeqsUpTo(_, _)
SeqsUpTo(S, n) ==
    IF n = 0 THEN {<<>>}
    ELSE LET shorter == SeqsUpTo(S, n - 1)
         IN  shorter \cup {Append(q, x) : q \in {r \in shorter : Len(r) = n - 1}, x \in S}

\* What write_metadata reads of its track: title, order, album.title,
\* album.artist.name and the names of featured_artists.all(), in the order
\* the relation returns them.
TagJobs ==
    [title : {TitleY}, order : {1, 12}, album : {TitleX},
     primary : {NameA, NameB},
     featured : SeqsUpTo({NameA, NameB, NameC}, MaxFeatured)]

\* track.featured_artists.count() > 0 (line 57).
HasFeaturedMoreThanOne(n) == n > 1
HasFeatured(n) == n > 0

\* Lines 58-60: artists = primary; for each featured: artists += ";" + name.
RECURSIVE FeaturedThenPrimary(_, _)
FeaturedThenPrimary(acc, feat) ==
    IF feat = <<>> THEN acc
    ELSE Head(feat) \o <<";">> \o FeaturedThenPrimary(acc, Tail(feat))

RECURSIVE JoinArtists(_, _)
JoinArtists(acc, feat) ==
    IF feat = <<>> THEN acc
    ELSE JoinArtists(acc \o <<";">> \o Head(feat), Tail(feat))

\* The tags one call of write_metadata assigns (lines 56-66).
WriteTags(job) ==
    LET basic == ("title" :> job.title) @@ ("album" :> job.album) @@
                 ("albumartist" :> job.primary) @@
                 ("tracknumber" :> IntStr(job.order))
    IN  IF HasFeatured(Len(job.featured))
        THEN basic @@ ("artists" :> JoinArtists(job.primary, job.featured))
        ELSE basic @@ ("artist" :> job.primary)

\* OggOpus(filepath) (line 53) loads the tags the file has; the assignments
\* replace the keys they name and audio.save() (line 68) writes all of them
\* back: a key an earlier call set and this one does not name stays.
SaveTags(old, assigned) == assigned @@ old

\* One call of write_metadata(filepath, track), on the file tagged last or on
\* a new file: `set` is what the call assigned, `tags` what the file holds.
WriteMetadata ==
    /\ \E job \in TagJobs, new_file \in BOOLEAN :
          audio' = [written |-> TRUE, job |-> job, set |-> WriteTags(job),
                    tags |-> SaveTags(IF new_file THEN NoTags ELSE audio.tags,
                                      WriteTags(job))]
    /\ UNCHANGED <<worker, web>>

InitTags ==
    InitWith({NameA}, {NameB}, {TRUE}, {FALSE}, {Stock(FALSE, FALSE)}, ThinCatalog)

\* The same rows with the accounts of the follow view.
InitFollow ==
    InitBase({NameA}, {NameB}, {TRUE}, {FALSE}, {Stock(FALSE, FALSE)}, ThinCatalog,
             FollowInit)
NextTags == WriteMetadata
SpecTags == InitTags /\ [][NextTags]_vars

\* ------------------------------------------------------- download_music
\* Names a Track queryset can look up: the fields of Track (models.py
\* 217-226, with the implicit id) and the reverse relations (290, 349).
TrackLookups ==
    {"id", "title", "order", "duration", "album", "featured_artists", "listens",
     "track_file", "yt_id", "listening_history", "favorited_by"}

\* The name download_music.py uses for the audio file (lines 24 and 54).
DownloadFileField == "file"

\* What write_metadata reads of track row t (featured artists by pk).
JobOf(arts, albs, trks, t) ==
    LET feat == RowsWhere(Len(arts), LAMBDA a : a \in trks[t].featured)
    IN  [title |-> trks[t].title, order |-> trks[t].order,
         album |-> albs[trks[t].album].title,
         primary |-> arts[albs[trks[t].album].artist].name,
         featured |-> [j \in 1..Len(feat) |-> arts[feat[j]].name]]

\* Line 24, Track.objects.filter(file=""): Django resolves the keyword when
\* the queryset is built and raises FieldError for a name that is no lookup
\* of Track; a name that resolves selects the rows whose audio file is
\* empty, in pk order.
DownloadSelectAll(trks) ==
    [raised |-> FALSE, rows |-> RowsWhere(Len(trks), LAMBDA t : TRUE)]

DownloadSelect(trks) ==
    IF DownloadFileField \notin TrackLookups
    THEN [raised |-> TRUE, rows |-> <<>>]
    ELSE [raised |-> FALSE,
          rows |-> RowsWhere(Len(trks), LAMBDA t : trks[t].track_file = "")]

\* One run of download_music.py: the selection of line 24, then the loop of
\* lines 43-61, which downloads, tags and attaches the selected tracks in
\* order until extract_info raises for the track at position f (0: for
\* none); nothing in the loop catches an exception.
DownloadRun ==
    /\ pc = "idle"
    /\ runs < MaxRuns
    /\ runs' = runs + 1
    /\ args' = {}
    /\ k' = 0
    /\ LET found == DownloadSelect(tracks)
           q == found.rows
           sl == [NoSel EXCEPT !.download = Range(q)]
       IN  IF found.raised
           THEN /\ Goto(Crash(<<>>, {"download"}, NoSel))
                /\ ev' = <<Event("FieldError", DownloadFileField)>>
                /\ UNCHANGED <<tracks, audio>>
           ELSE \E f \in 0..Len(q) :
                  LET n == IF f = 0 THEN Len(q) ELSE f - 1
                      got == {q[j] : j \in 1..n}
                  IN  /\ tracks' = [t \in 1..Len(tracks) |->
                                      IF t \in got
                                      THEN [tracks[t] EXCEPT !.track_file = tracks[t].yt_id]
                                      ELSE tracks[t]]
                      /\ audio' = IF n = 0 THEN audio
                                  ELSE [written |-> TRUE,
                                        job |-> JobOf(artists, albums, tracks, q[n]),
                                        set |-> WriteTags(JobOf(artists, albums, tracks, q[n])),
                                        tags |-> SaveTags(NoTags,
                                            WriteTags(JobOf(artists, albums, tracks, q[n])))]
                      /\ IF f = 0
                         THEN Goto(Ctl("done", <<>>, {"download"}, sl)) /\ ev' = <<>>
                         ELSE /\ Goto(Crash(SubSeq(q, f, Len(q)), {"download"}, sl))
                              /\ ev' = <<Event("extract_info_raised", tracks[q[f]].yt_id)>>
    /\ UNCHANGED <<artists, albums, catalog, web>>

\* The admin site (TrackAdmin, and TrackInline of the album form): the change
\* form of a Track uploads its audio file while no worker runs.
TrackAdminUpload ==
    /\ pc = "idle"
    /\ \E t \in 1..Len(tracks) :
          /\ tracks[t].track_file = ""
          /\ tracks' = [tracks EXCEPT ![t].track_file = "upload.opus"]
    /\ UNCHANGED <<artists, albums, args, pc, queue, k, runs, passes, sel, ev,
                   catalog, audio, web>>

\* Runs of download_music.py between runs of `update_metadata.py --tracks`
\* and uploads through the admin site.
NextDownload ==
    \/ DownloadRun
    \/ TrackAdminUpload
    \/ NextTracks
SpecDownload == InitTracks /\ [][NextDownload]_vars

\* ------------------------------------------- accounts: tokens and views
MaxTokens == 2
MaxTicks == 1
MaxUsers == 3
MaxPending == 2
MaxCalls == 2
EmailTtl == 24
ResetTtl == 1
\* LoginRateThrottle.rate = '10/minute'.
ThrottleRate == 10

\* Token strings a request may carry: issued ones and one that never was.
TokenStrs == {"e1", "r1", "bogus"}
\* Passwords a request may carry: the second fails validation (len < 8).
Passwords == {"long-enough", "short"}

\* The same rows; the anonymous client has made no request within the last
\* minute, or ThrottleRate of them (each answered 400 or 401).
InitWeb ==
    \E hits \in {0, ThrottleRate} :
        InitBase({NameA}, {NameB}, {TRUE}, {FALSE}, {Stock(FALSE, FALSE)}, ThinCatalog,
                 [WebInit EXCEPT !.hits = hits])

\* Time passes: an hour or a day (the throttle's minute is over).
Tick ==
    /\ web.ticks < MaxTicks
    /\ \E d \in {1, 24} :
          web' = [web EXCEPT !.now = @ + d, !.ticks = @ + 1, !.hits = 0]
    /\ UNCHANGED <<worker, audio>>

NewToken(prefix, n, user, expires_at) ==
    [token |-> prefix[n], user |-> user, expires_at |-> expires_at, is_used |-> FALSE]

AnswerWith(w, view, status, body) ==
    [w EXCEPT !.out = [view |-> view, status |-> status, body |-> body]]

\* The email a request carries: none, that of a user, one of no user.
Emails == {"", UserEmail, "u1@x", "nobody@x"}

\* User.objects.get(email=email): the pks of the rows with that email; get
\* raises DoesNotExist for none and MultipleObjectsReturned for two (the
\* email column of User is not unique).
UserRows(users, email) ==
    {i \in 1..Len(users) : ~users[i].deleted /\ users[i].email = email}

\* The rows with that username, the row pk aside (username is unique).
UsernameRows(users, username, pk) ==
    {i \in 1..Len(users) : i # pk /\ ~users[i].deleted /\ users[i].username = username}

\* A handler between two of its statements: the response label of its
\* request, where it stands, the pk of the user it read, the User instance
\* it holds in memory and the validated data of the request.
NoData == [field \in {} |-> ""]
Call(kind, view, at, user, row, data) ==
    [kind |-> kind, view |-> view, pc |-> at, user |-> user, row |-> row,
     data |-> data]

\* A request is taken up (the bound on requests counts it).
Started(w) == [w EXCEPT !.started = @ + 1]

\* The handler gets as far as its next statement and waits there.
Wait(w, call) == [w EXCEPT !.calls = Append(@, call)]

\* Handler i goes on to its next statement / answers and is done.
Proceed(w, i, at) == [w EXCEPT !.calls[i].pc = at]
AnswerCall(w, i, status, body) ==
    [AnswerWith(w, w.calls[i].view, status, body) EXCEPT
        !.calls = SubSeq(w.calls, 1, i - 1) \o SubSeq(w.calls, i + 1, Len(w.calls))]

\* EmailService.send_verification_email up to send_mail: the token row.
SendVerificationEmail(w, user) ==
    [w EXCEPT !.etokens = Append(@, NewToken(<<"e1", "e2", "e3", "e4">>, w.eissued + 1,
                                             user, w.now + EmailTtl)),
              !.eissued = @ + 1]

\* EmailService.send_password_reset_email up to send_mail: the token row.
SendPasswordResetEmail(w, user) ==
    [w EXCEPT !.rtokens = Append(@, NewToken(<<"r1", "r2", "r3", "r4">>, w.rissued + 1,
                                             user, w.now + ResetTtl)),
              !.rissued = @ + 1]

\* send_mail(..., fail_silently=False) returns or raises, and the handler
\* that waited for it answers: RegisterView catches the exception, the two
\* other views do not. The response of RegisterView carries
\* UserSerializer(user).data, whose get_profile finds the profile that
\* RegisterSerializer.create left on the instance and reads no table.
SendMail ==
    /\ \E i \in 1..Len(web.calls), sent \in BOOLEAN :
          LET c == web.calls[i]
          IN  /\ c.pc = "send_mail"
              /\ web' =
                   IF c.kind = "register"
                   THEN AnswerCall(web, i, 201, "Registration successful. Please check your email to verify your account.")
                   ELSE IF ~sent THEN AnswerCall(web, i, 500, "send_mail raised")
                   ELSE IF c.kind = "resend"
                   THEN AnswerCall(web, i, 200, "Verification email sent")
                   ELSE AnswerCall(web, i, 200, "Password reset email sent")
    /\ UNCHANGED <<worker, audio>>

\* AnonRateThrottle.allow_request: the client has ThrottleRate requests in
\* the last minute; a request let through is added to them.
Throttled(w) == w.hits >= ThrottleRate
Counted(w) == [w EXCEPT !.hits = @ + 1]

\* CustomTokenObtainPairView with a username, up to the serializer's
\* super().validate: throttle, then the user of that name must have the
\* password and be active.
Login ==
    /\ web.started < MaxCalls
    /\ \E username \in {"user", "u1"}, password \in {"pw0", "long-enough"} :
          LET view == "login:" \o username \o ":" \o password
              found == {i \in UsernameRows(web.users, username, 0) :
                           /\ web.users[i].password = password
                           /\ web.users[i].is_active}
          IN  IF Throttled(web)
              THEN web' = AnswerWith(Started(web), view, 429, "Request was throttled.")
              ELSE IF found = {}
              THEN web' = AnswerWith(Counted(Started(web)), view, 401,
                                     "No active account found with the given credentials")
              ELSE /\ Len(web.calls) < MaxPending
                   /\ web' = Wait(Counted(Started(web)),
                                  Call("login", view, "data", CHOOSE i \in found : TRUE,
                                       web.users[CHOOSE i \in found : TRUE], NoData))
    /\ UNCHANGED <<worker, audio>>

\* UserSerializer(user).data (login, me_view) and
\* UserSettingsSerializer(user).data (GET of settings_view): get_profile
\* reads user.profile from the table, which raises
\* RelatedObjectDoesNotExist for a user without a profile row; a missing
\* preference row is serialised as null.
SerializeUser ==
    /\ \E i \in 1..Len(web.calls) :
          LET c == web.calls[i]
          IN  /\ c.pc = "data"
              /\ web' = IF web.users[c.user].profile.exists
                        THEN AnswerCall(web, i, 200, "")
                        ELSE AnswerCall(web, i, 500, "RelatedObjectDoesNotExist")
    /\ UNCHANGED <<worker, audio>>

\* RegisterView.create up to serializer.is_valid (views.py 164-165): the
\* throttle, the field validators (username in use), then validate()
\* (passwords differ); email "" stands for a request without an email.
Register ==
    /\ web.started < MaxCalls
    /\ \E username \in {"user", "user2"}, email \in {UserEmail, ""},
          confirmed \in BOOLEAN :
          LET view == "register:" \o username \o ":" \o email
          IN  IF Throttled(web)
              THEN web' = AnswerWith(Started(web), view, 429, "Request was throttled.")
              ELSE IF UsernameRows(web.users, username, 0) # {}
              THEN web' = AnswerWith(Counted(Started(web)), view, 400,
                                     "A user with that username already exists.")
              ELSE IF ~confirmed
              THEN web' = AnswerWith(Counted(Started(web)), view, 400,
                                     "Password fields didn't match.")
              ELSE /\ Len(web.calls) < MaxPending
                   /\ web' = Wait(Counted(Started(web)),
                                  Call("register", view, "valid", 0,
                                       NewUser(username, email, FALSE, FALSE), NoData))
    /\ UNCHANGED <<worker, audio>>

\* serializer.save() as far as User.objects.create_user (serializers.py
\* 219-230): validated_data['email'] raises KeyError for a request without
\* email, create_user IntegrityError for a username stored since the check;
\* else the user row is inserted, without profile.
RegisterSave ==
    /\ \E i \in 1..Len(web.calls) :
          LET c == web.calls[i]
              pk == Len(web.users) + 1
          IN  /\ c.kind = "register"
              /\ c.pc = "valid"
              /\ IF c.row.email = ""
                 THEN web' = AnswerCall(web, i, 500, "KeyError")
                 ELSE IF UsernameRows(web.users, c.row.username, 0) # {}
                 THEN web' = AnswerCall(web, i, 500, "IntegrityError")
                 ELSE /\ Len(web.users) < MaxUsers
                      /\ web' = [Proceed(web, i, "created") EXCEPT
                                    !.users = Append(@, [c.row EXCEPT !.profile = NoProfile]),
                                    !.calls[i].user = pk]
    /\ UNCHANGED <<worker, audio>>

\* UserProfile.objects.create(user=user) (serializers.py 233): the profile
\* row is inserted; the insert raises IntegrityError when the user has been
\* deleted or has a profile row.
RegisterProfile ==
    /\ \E i \in 1..Len(web.calls) :
          LET c == web.calls[i]
              row == web.users[c.user]
          IN  /\ c.kind = "register"
              /\ c.pc = "created"
              /\ web' = IF row.deleted \/ row.profile.exists
                        THEN AnswerCall(web, i, 500, "IntegrityError")
                        ELSE [Proceed(web, i, "profile") EXCEPT
                                 !.users[c.user].profile = c.row.profile]
    /\ UNCHANGED <<worker, audio>>

\* EmailService.send_verification_email(user) of RegisterView.create as far
\* as send_mail (views.py 168-169): the token row is inserted; the view
\* catches the IntegrityError of a user deleted meanwhile and answers 201.
RegisterToken ==
    /\ \E i \in 1..Len(web.calls) :
          LET c == web.calls[i]
          IN  /\ c.kind = "register"
              /\ c.pc = "profile"
              /\ IF web.users[c.user].deleted
                 THEN web' = AnswerCall(web, i, 201, "Registration successful. Please check your email to verify your account.")
                 ELSE /\ web.eissued < MaxTokens
                      /\ web' = Proceed(SendVerificationEmail(web, c.user), i, "send_mail")
    /\ UNCHANGED <<worker, audio>>

\* resend_verification_view up to User.objects.get (views.py 259-264).
ResendVerification ==
    /\ web.started < MaxCalls
    /\ \E email \in Emails :
          LET view == "resend_verification:" \o email
              found == UserRows(web.users, email)
          IN  IF email = ""
              THEN web' = AnswerWith(Started(web), view, 400, "Email required")
              ELSE IF found = {}
              THEN web' = AnswerWith(Started(web), view, 404, "User not found")
              ELSE IF Cardinality(found) > 1
              THEN web' = AnswerWith(Started(web), view, 500, "MultipleObjectsReturned")
              ELSE /\ Len(web.calls) < MaxPending
                   /\ web' = Wait(Started(web),
                                  Call("resend", view, "got_user", CHOOSE i \in found : TRUE,
                                       web.users[CHOOSE i \in found : TRUE], NoData))
    /\ UNCHANGED <<worker, audio>>

\* Line 266: user.profile is read from the table now; a user deleted since
\* line 264 has none.
ResendProfile ==
    /\ \E i \in 1..Len(web.calls) :
          LET c == web.calls[i]
              profile == web.users[c.user].profile
          IN  /\ c.kind = "resend"
              /\ c.pc = "got_user"
              /\ web' = IF profile.exists /\ profile.email_verified
                        THEN AnswerCall(web, i, 200, "Email already verified")
                        ELSE Proceed(web, i, "unverified")
    /\ UNCHANGED <<worker, audio>>

\* Line 269, up to send_mail: the token row refers to the user, so the
\* insert raises IntegrityError when the user has been deleted.
ResendToken ==
    /\ \E i \in 1..Len(web.calls) :
          LET c == web.calls[i]
          IN  /\ c.kind = "resend"
              /\ c.pc = "unverified"
              /\ IF web.users[c.user].deleted
                 THEN web' = AnswerCall(web, i, 500, "IntegrityError")
                 ELSE /\ web.eissued < MaxTokens
                      /\ web' = Proceed(SendVerificationEmail(web, c.user), i, "send_mail")
    /\ UNCHANGED <<worker, audio>>

\* request_password_reset_view up to User.objects.get (views.py 304-309,
\* 313-315): only User.DoesNotExist is caught.
RequestPasswordReset ==
    /\ web.started < MaxCalls
    /\ \E email \in Emails :
          LET view == "request_password_reset:" \o email
              found == UserRows(web.users, email)
          IN  IF email = ""
              THEN web' = AnswerWith(Started(web), view, 400, "Email required")
              ELSE IF found = {}
              THEN web' = AnswerWith(Started(web), view, 200, "Password reset email sent")
              ELSE IF Cardinality(found) > 1
              THEN web' = AnswerWith(Started(web), view, 500, "MultipleObjectsReturned")
              ELSE /\ Len(web.calls) < MaxPending
                   /\ web' = Wait(Started(web),
                                  Call("reset", view, "got_user", CHOOSE i \in found : TRUE,
                                       web.users[CHOOSE i \in found : TRUE], NoData))
    /\ UNCHANGED <<worker, audio>>

\* Line 311, up to send_mail: the token row refers to the user, so the
\* insert raises IntegrityError when the user has been deleted.
ResetToken ==
    /\ \E i \in 1..Len(web.calls) :
          LET c == web.calls[i]
          IN  /\ c.kind = "reset"
              /\ c.pc = "got_user"
              /\ IF web.users[c.user].deleted
                 THEN web' = AnswerCall(web, i, 500, "IntegrityError")
                 ELSE /\ web.rissued < MaxTokens
                      /\ web' = Proceed(SendPasswordResetEmail(web, c.user), i, "send_mail")
    /\ UNCHANGED <<worker, audio>>

\* objects.get(token=token_str, is_used=False): the row's index, 0 for
\* DoesNotExist.
UnusedToken(toks, token_str) ==
    IF \E i \in 1..Len(toks) : toks[i].token = token_str /\ ~toks[i].is_used
    THEN CHOOSE i \in 1..Len(toks) : toks[i].token = token_str /\ ~toks[i].is_used
    ELSE 0

\* The property is_valid of both token models.
IsValidProperty(tok, now) == ~tok.is_used /\ now < tok.expires_at

\* token.is_valid(): is_valid is declared with @property, so the attribute is
\* already a bool, and calling a bool raises TypeError.
CallableBooleans == BOOLEAN
CallableValues == {}
CallIsValid(tok, now) ==
    LET attr == IsValidProperty(tok, now)
    IN  IF attr \in CallableValues
        THEN [raised |-> "", value |-> attr]
        ELSE [raised |-> "TypeError", value |-> attr]

\* EmailService.verify_email_token.
VerifyEmailToken(w, token_str) ==
    LET i == UnusedToken(w.etokens, token_str)
    IN  IF i = 0
        THEN [web |-> w, valid |-> FALSE, raised |-> ""]
        ELSE LET c == CallIsValid(w.etokens[i], w.now)
             IN  IF c.raised # ""
                 THEN [web |-> w, valid |-> FALSE, raised |-> c.raised]
                 ELSE IF ~c.value
                 THEN [web |-> w, valid |-> FALSE, raised |-> ""]
                 ELSE [web |-> [w EXCEPT
                                  !.users[w.etokens[i].user].is_active = TRUE,
                                  !.users[w.etokens[i].user].profile =
                                      [@ EXCEPT !.exists = TRUE,
                                                !.email_verified = TRUE],
                                  !.etokens[i].is_used = TRUE],
                       valid |-> TRUE, raised |-> ""]

\* verify_email_view: 500 stands for an exception no handler catches.
VerifyEmailView ==
    /\ web.started < MaxCalls
    /\ \E token_str \in TokenStrs :
          LET r == VerifyEmailToken(Started(web), token_str)
          IN  web' = AnswerWith(r.web, "verify_email:" \o token_str,
                                IF r.raised # "" THEN 500
                                ELSE IF r.valid THEN 200 ELSE 400, "")
    /\ UNCHANGED <<worker, audio>>

\* EmailService.verify_password_reset_token: `user` is the pk of the token's
\* user when the token is valid.
VerifyPasswordResetToken(w, token_str) ==
    LET i == UnusedToken(w.rtokens, token_str)
    IN  IF i = 0
        THEN [valid |-> FALSE, raised |-> "", user |-> 0]
        ELSE LET c == CallIsValid(w.rtokens[i], w.now)
             IN  IF c.raised # ""
                 THEN [valid |-> FALSE, raised |-> c.raised, user |-> 0]
                 ELSE [valid |-> c.value, raised |-> "", user |-> w.rtokens[i].user]

\* EmailService.mark_password_reset_token_used: get(token=token_str), any
\* is_used.
MarkPasswordResetTokenUsed(toks, token_str) ==
    [i \in 1..Len(toks) |->
        IF toks[i].token = token_str THEN [toks[i] EXCEPT !.is_used = TRUE]
        ELSE toks[i]]

\* The users with a request of the follow view being served.
InFlight == {u \in Users : web.reqs[u].pc # "idle"}

\* IsAuthenticated: the token of the request names a stored, active user.
Authenticated(users, pk) ==
    /\ pk \in 1..Len(users)
    /\ ~users[pk].deleted
    /\ users[pk].is_active

\* Model.save() of a User instance held in memory: every column is written
\* from the instance (UPDATE, or INSERT when the row is gone); the profile
\* and the preference rows are rows of their own.
SaveUser(users, pk, row) ==
    [users EXCEPT ![pk] = [row EXCEPT !.deleted = FALSE,
                                      !.profile = users[pk].profile,
                                      !.preferences = users[pk].preferences,
                                      !.notifications = users[pk].notifications]]

\* reset_password_view up to serializer.is_valid (views.py 322-327): a
\* new password shorter than 8 characters is answered 400.
ResetPasswordView ==
    /\ web.started < MaxCalls
    /\ \E token_str \in TokenStrs, new_password \in Passwords :
          LET view == "reset_password:" \o token_str \o ":" \o new_password
          IN  IF new_password = "short"
              THEN web' = AnswerWith(Started(web), view, 400, "")
              ELSE /\ Len(web.calls) < MaxPending
                   /\ web' = Wait(Started(web),
                                  Call("reset_password", view, "valid", 0, NoData,
                                       [token |-> token_str,
                                        new_password |-> new_password]))
    /\ UNCHANGED <<worker, audio>>

\* The rest of reset_password_view, one statement at a time: the token check
\* (330-332; 500 stands for the exception no handler catches), then
\* user.set_password and user.save() on the token's user (335-337), then
\* mark_password_reset_token_used and the response (340-342).
ResetPasswordStep ==
    /\ \E i \in 1..Len(web.calls) :
          LET c == web.calls[i]
              r == VerifyPasswordResetToken(web, c.data.token)
          IN  /\ c.kind = "reset_password"
              /\ web' =
                   IF c.pc = "valid"
                   THEN IF r.raised # "" THEN AnswerCall(web, i, 500, r.raised)
                        ELSE IF ~r.valid THEN AnswerCall(web, i, 400, "")
                        ELSE [Proceed(web, i, "verified") EXCEPT
                                 !.calls[i].user = r.user,
                                 !.calls[i].row = [web.users[r.user] EXCEPT
                                                      !.password = c.data.new_password]]
                   ELSE IF c.pc = "verified"
                   THEN IF UsernameRows(web.users, c.row.username, c.user) # {}
                        THEN AnswerCall(web, i, 500, "IntegrityError")
                        ELSE [Proceed(web, i, "saved") EXCEPT
                                 !.users = SaveUser(@, c.user, c.row),
                                 !.resets = Append(@, [token |-> c.data.token,
                                                       op |-> "save"])]
                   ELSE [AnswerCall(web, i, 200, "Password reset successfully") EXCEPT
                            !.rtokens = MarkPasswordResetTokenUsed(@, c.data.token),
                            !.resets = Append(@, [token |-> c.data.token, op |-> "ok"])]
    /\ UNCHANGED <<worker, audio>>

\* change_password_view up to serializer.is_valid (views.py 284-292):
\* request.user is the row as authentication read it.
ChangePassword ==
    /\ web.started < MaxCalls
    /\ \E user \in 1..Len(web.users), old_password \in {"pw0", "long-enough"},
          new_password \in Passwords :
          LET view == "change_password:" \o old_password \o ":" \o new_password
          IN  /\ Authenticated(web.users, user)
              /\ IF old_password # web.users[user].password
                 THEN web' = AnswerWith(Started(web), view, 400, "Incorrect password")
                 ELSE IF new_password = "short"
                 THEN web' = AnswerWith(Started(web), view, 400,
                                        "Password must be at least 8 characters")
                 ELSE /\ Len(web.calls) < MaxPending
                      /\ web' = Wait(Started(web),
                                     Call("password", view, "valid", user,
                                          [web.users[user] EXCEPT !.password = new_password],
                                          NoData))
    /\ UNCHANGED <<worker, audio>>

\* Lines 293-296: set_password on the instance, user.save(), the response.
ChangePasswordSave ==
    /\ \E i \in 1..Len(web.calls) :
          LET c == web.calls[i]
          IN  /\ c.kind = "password"
              /\ c.pc = "valid"
              /\ web' = IF UsernameRows(web.users, c.row.username, c.user) # {}
                        THEN AnswerCall(web, i, 500, "IntegrityError")
                        ELSE AnswerCall([web EXCEPT !.users = SaveUser(@, c.user, c.row)],
                                        i, 200, "Password updated successfully")
    /\ UNCHANGED <<worker, audio>>

\* UpdateProfileView (views.py 275-281) up to serializer.is_valid:
\* get_object returns request.user, the row as authentication read it.
UpdateProfileView ==
    /\ web.started < MaxCalls
    /\ Len(web.calls) < MaxPending
    /\ \E user \in 1..Len(web.users), first_name \in {"Ann"} :
          /\ Authenticated(web.users, user)
          /\ web' = Wait(Started(web),
                         Call("profile", "update_profile:" \o first_name, "valid", user,
                              web.users[user], [first_name |-> first_name]))
    /\ UNCHANGED <<worker, audio>>

\* The attributes a serializer's update sets on the instance: validated
\* data over the values the instance holds.
SetAttrs(row, data) ==
    [f \in DOMAIN row |-> IF f \in DOMAIN data THEN data[f] ELSE row[f]]

\* UpdateProfileSerializer.update: the names are set on the instance, then
\* instance.save(); the response holds the two names only.
UpdateProfileSave ==
    /\ \E i \in 1..Len(web.calls) :
          LET c == web.calls[i]
          IN  /\ c.kind = "profile"
              /\ c.pc = "valid"
              /\ web' = IF UsernameRows(web.users, c.row.username, c.user) # {}
                        THEN AnswerCall(web, i, 500, "IntegrityError")
                        ELSE AnswerCall([web EXCEPT !.users =
                                            SaveUser(@, c.user, SetAttrs(c.row, c.data))],
                                        i, 200, "")
    /\ UNCHANGED <<worker, audio>>

\* upload_avatar_view up to serializer.is_valid (views.py 380-384): a request
\* without an image file is answered 400.
UploadAvatarView ==
    /\ web.started < MaxCalls
    /\ \E user \in 1..Len(web.users), avatar \in {"", "a.png"} :
          LET view == "upload_avatar:" \o avatar
          IN  /\ Authenticated(web.users, user)
              /\ IF avatar = ""
                 THEN web' = AnswerWith(Started(web), view, 400, "No file was submitted.")
                 ELSE /\ Len(web.calls) < MaxPending
                      /\ web' = Wait(Started(web),
                                     Call("avatar", view, "valid", user, web.users[user],
                                          [avatar |-> avatar]))
    /\ UNCHANGED <<worker, audio>>

\* The rest of upload_avatar_view, one statement at a time: line 387 reads
\* request.user.profile from the table (RelatedObjectDoesNotExist without a
\* row) and sets the avatar on that instance; line 388 saves the instance,
\* every column of it (UPDATE, or INSERT when the row is gone, which raises
\* IntegrityError for a deleted user); line 390 reads the row again
\* (DoesNotExist when it is gone) and the response follows.
UploadAvatarStep ==
    /\ \E i \in 1..Len(web.calls) :
          LET c == web.calls[i]
              row == web.users[c.user]
          IN  /\ c.kind = "avatar"
              /\ web' =
                   IF c.pc = "valid"
                   THEN IF ~row.profile.exists
                        THEN AnswerCall(web, i, 500, "RelatedObjectDoesNotExist")
                        ELSE [Proceed(web, i, "read") EXCEPT
                                 !.calls[i].row.profile =
                                     [row.profile EXCEPT !.avatar = c.data.avatar]]
                   ELSE IF c.pc = "read"
                   THEN IF ~row.profile.exists /\ row.deleted
                        THEN AnswerCall(web, i, 500, "IntegrityError")
                        ELSE [Proceed(web, i, "saved") EXCEPT
                                 !.users[c.user].profile = c.row.profile]
                   ELSE IF ~row.profile.exists
                        THEN AnswerCall(web, i, 500, "DoesNotExist")
                        ELSE AnswerCall(web, i, 200, row.profile.avatar)
    /\ UNCHANGED <<worker, audio>>

\* me_view up to its first statement (views.py 209-213).
MeView ==
    /\ web.started < MaxCalls
    /\ Len(web.calls) < MaxPending
    /\ \E user \in 1..Len(web.users) :
          /\ Authenticated(web.users, user)
          /\ web' = Wait(Started(web),
                         Call("me", "me", "preferences", user, web.users[user], NoData))
    /\ UNCHANGED <<worker, audio>>

\* settings_view up to its first statement (views.py 349-356): a GET, or a
\* PATCH of the username or of the email.
SettingsView ==
    /\ web.started < MaxCalls
    /\ Len(web.calls) < MaxPending
    /\ \E user \in 1..Len(web.users),
          patch \in {NoData, [username |-> "user2"], [email |-> "nobody@x"]} :
          LET view == IF "username" \in DOMAIN patch
                      THEN "settings:username:" \o patch.username
                      ELSE IF "email" \in DOMAIN patch
                      THEN "settings:email:" \o patch.email
                      ELSE "settings:GET"
          IN  /\ Authenticated(web.users, user)
              /\ web' = Wait(Started(web),
                             Call("settings", view, "preferences", user,
                                  web.users[user], patch))
    /\ UNCHANGED <<worker, audio>>

\* Lines 216-223 of me_view and 359-366 of settings_view, one statement at a
\* time: user.preferences is read and, when the row is missing,
\* UserPreferences.objects.create(user=user) inserts it; the same for
\* user.notification_preferences. The insert raises IntegrityError when the
\* user has been deleted or the row has been stored since the read.
EnsurePreferences ==
    /\ \E i \in 1..Len(web.calls) :
          LET c == web.calls[i]
              row == web.users[c.user]
              then == IF c.kind = "settings" /\ DOMAIN c.data # {} THEN "ready" ELSE "data"
          IN  /\ c.kind \in {"me", "settings"}
              /\ c.pc \in {"preferences", "create_preferences",
                            "notifications", "create_notifications"}
              /\ web' =
                   IF c.pc = "preferences"
                   THEN Proceed(web, i, IF row.preferences THEN "notifications"
                                        ELSE "create_preferences")
                   ELSE IF c.pc = "notifications"
                   THEN Proceed(web, i, IF row.notifications THEN then
                                        ELSE "create_notifications")
                   ELSE IF c.pc = "create_preferences"
                   THEN IF row.deleted \/ row.preferences
                        THEN AnswerCall(web, i, 500, "IntegrityError")
                        ELSE [Proceed(web, i, "notifications") EXCEPT
                                 !.users[c.user].preferences = TRUE]
                   ELSE IF row.deleted \/ row.notifications
                        THEN AnswerCall(web, i, 500, "IntegrityError")
                        ELSE [Proceed(web, i, then) EXCEPT
                                 !.users[c.user].notifications = TRUE]
    /\ UNCHANGED <<worker, audio>>

\* PATCH of settings_view, lines 373-375: serializer.is_valid() (400 for a
\* username another user has), then serializer.save() as far as
\* instance.save() (UserSettingsSerializer.update: setattr, instance.save()).
SettingsSave ==
    /\ \E i \in 1..Len(web.calls) :
          LET c == web.calls[i]
              row == SetAttrs(c.row, c.data)
          IN  /\ c.kind = "settings"
              /\ c.pc \in {"ready", "valid"}
              /\ web' =
                   IF c.pc = "ready"
                   THEN IF UsernameRows(web.users, row.username, c.user) # {}
                           /\ "username" \in DOMAIN c.data
                        THEN AnswerCall(web, i, 400,
                                        "A user with that username already exists.")
                        ELSE Proceed(web, i, "valid")
                   ELSE IF UsernameRows(web.users, row.username, c.user) # {}
                        THEN AnswerCall(web, i, 500, "IntegrityError")
                        ELSE [Proceed(web, i, "saved") EXCEPT
                                 !.users = SaveUser(@, c.user, row)]
    /\ UNCHANGED <<worker, audio>>

\* The end of the PATCH: instance.refresh_from_db() (DoesNotExist for a user
\* deleted since the save), then serializer.data, whose get_profile reads
\* the profile from the table; a missing preference row is serialised as
\* null.
SettingsRead ==
    /\ \E i \in 1..Len(web.calls) :
          LET c == web.calls[i]
              row == web.users[c.user]
          IN  /\ c.kind = "settings"
              /\ c.pc \in {"saved", "refreshed"}
              /\ web' =
                   IF c.pc = "saved"
                   THEN IF row.deleted THEN AnswerCall(web, i, 500, "DoesNotExist")
                        ELSE Proceed(web, i, "refreshed")
                   ELSE IF row.profile.exists
                        THEN AnswerCall(web, i, 200, "")
                        ELSE AnswerCall(web, i, 500, "RelatedObjectDoesNotExist")
    /\ UNCHANGED <<worker, audio>>

\* delete_account_view (views.py 398-415): user.delete() removes the user and,
\* by on_delete=CASCADE, the profile, the preference rows, the tokens and the
\* FollowedArtist rows of that user; no Artist row is written. At most
\* `limit` requests of the follow view are being served at a time.
DeleteAccount(limit) ==
    /\ Cardinality(InFlight) < limit
    /\ \E i \in 1..Len(web.users) :
          /\ Authenticated(web.users, i)
          /\ web' = [AnswerWith(web, "delete_account:" \o web.users[i].username, 200,
                                "Account deleted successfully") EXCEPT
                       !.users[i].deleted = TRUE,
                       !.users[i].profile = NoProfile,
                       !.users[i].preferences = FALSE,
                       !.users[i].notifications = FALSE,
                       !.etokens = SelectSeq(@, LAMBDA t : t.user # i),
                       !.rtokens = SelectSeq(@, LAMBDA t : t.user # i),
                       !.follows = SelectSeq(@, LAMBDA row : row.user # i)]
    /\ UNCHANGED <<worker, audio>>

NextWeb ==
    \/ Tick
    \/ Login
    \/ SerializeUser
    \/ Register
    \/ RegisterSave
    \/ RegisterProfile
    \/ RegisterToken
    \/ ResendVerification
    \/ ResendProfile
    \/ ResendToken
    \/ RequestPasswordReset
    \/ ResetToken
    \/ SendMail
    \/ VerifyEmailView
    \/ ResetPasswordView
    \/ ResetPasswordStep
    \/ ChangePassword
    \/ ChangePasswordSave
    \/ UpdateProfileView
    \/ UpdateProfileSave
    \/ UploadAvatarView
    \/ UploadAvatarStep
    \/ MeView
    \/ SettingsView
    \/ EnsurePreferences
    \/ SettingsSave
    \/ SettingsRead
    \/ DeleteAccount(1)
SpecWeb == InitWeb /\ [][NextWeb]_vars

\* ------------------------------------------------- views.follow_artist_view
MaxRequests == 4
\* The pk of the url: a stored artist, or none.
FollowPks == {1, 9}

\* What a request of the follow view leaves alone.
ingest == <<albums, tracks, args, pc, queue, k, runs, passes, sel, ev, catalog, audio>>

\* Lines 576-581: the view starts for user u and reads the artist row (with
\* its followers count); at most `limit` requests are being served at a time.
FollowBegin(limit) ==
    /\ web.started < MaxRequests
    /\ Cardinality(InFlight) < limit
    /\ \E u \in Users \ InFlight, method \in {"POST", "DELETE"}, pk \in FollowPks :
          /\ Authenticated(web.users, u)
          /\ web' = [web EXCEPT
                    !.started = @ + 1,
                    !.reqs[u] =
                        IF pk > Len(artists)
                        THEN [pc |-> "idle", method |-> method, pk |-> pk,
                              seen |-> 0, status |-> 404]
                        ELSE [pc |-> "got", method |-> method, pk |-> pk,
                              seen |-> artists[pk].followers, status |-> 0]]
    /\ UNCHANGED <<artists, ingest>>

FollowRow(u, pk) == [user |-> u, artist |-> pk]

\* The lookup of FollowedArtist.objects.get_or_create(user=, artist=).
FollowExistsNever(rows, u, pk) == FALSE
FollowExists(rows, u, pk) == \E i \in 1..Len(rows) : rows[i] = FollowRow(u, pk)

\* Lines 585-595: get_or_create; the response when the row was there. The
\* row refers to the user, so the insert raises IntegrityError (500) when the
\* user has been deleted since the request was authenticated.
FollowGetOrCreate ==
    /\ \E u \in Users :
          LET r == web.reqs[u]
          IN  /\ r.pc = "got"
              /\ r.method = "POST"
              /\ web' = IF FollowExists(web.follows, u, r.pk)
                        THEN [web EXCEPT !.reqs[u].pc = "idle", !.reqs[u].status = 200]
                        ELSE IF web.users[u].deleted
                        THEN [web EXCEPT !.reqs[u].pc = "idle", !.reqs[u].status = 500]
                        ELSE [web EXCEPT !.follows = Append(@, FollowRow(u, r.pk)),
                                         !.reqs[u].pc = "created"]
    /\ UNCHANGED <<artists, ingest>>

\* Lines 589-593: followers = (the value read at line 579) + 1, saved with
\* update_fields=['followers'].
FollowSaveCount ==
    /\ \E u \in Users :
          LET r == web.reqs[u]
          IN  /\ r.pc = "created"
              /\ artists' = [artists EXCEPT ![r.pk].followers = r.seen + 1]
              /\ web' = [web EXCEPT !.reqs[u].pc = "idle", !.reqs[u].status = 201]
    /\ UNCHANGED ingest

\* Lines 599-606: filter(user=, artist=).delete(); the response when nothing
\* was deleted.
UnfollowDelete ==
    /\ \E u \in Users :
          LET r == web.reqs[u]
              kept == SelectSeq(web.follows, LAMBDA row : row # FollowRow(u, r.pk))
          IN  /\ r.pc = "got"
              /\ r.method = "DELETE"
              /\ web' = IF Len(kept) < Len(web.follows)
                        THEN [web EXCEPT !.follows = kept, !.reqs[u].pc = "deleted"]
                        ELSE [web EXCEPT !.reqs[u].pc = "idle", !.reqs[u].status = 404]
    /\ UNCHANGED <<artists, ingest>>

\* Lines 600-604: followers = max(0, (the value read at line 579) - 1).
UnfollowSaveCount ==
    /\ \E u \in Users :
          LET r == web.reqs[u]
          IN  /\ r.pc = "deleted"
              /\ artists' = [artists EXCEPT
                                ![r.pk].followers = IF r.seen >= 1 THEN r.seen - 1 ELSE 0]
              /\ web' = [web EXCEPT !.reqs[u].pc = "idle", !.reqs[u].status = 200]
    /\ UNCHANGED ingest

\* Requests served one after the other.
NextFollowSerial ==
    \/ FollowBegin(1)
    \/ FollowGetOrCreate
    \/ FollowSaveCount
    \/ UnfollowDelete
    \/ UnfollowSaveCount
    \/ DeleteAccount(1)
SpecFollowSerial == InitFollow /\ [][NextFollowSerial]_vars

\* Up to one request per user at a time.
NextFollow ==
    \/ FollowBegin(Cardinality(Users))
    \/ FollowGetOrCreate
    \/ FollowSaveCount
    \/ UnfollowDelete
    \/ UnfollowSaveCount
    \/ DeleteAccount(Cardinality(Users))
SpecFollow == InitFollow /\ [][NextFollow]_vars

\* ------------------------------------------------------------------ claims
TracksPcs == {"album_fetch", "album_cover", "album_tracks"}
LastOp(e) == IF e = <<>> THEN "" ELSE e[Len(e)].op
Logged(op) == \E i \in 1..Len(ev) : ev[i].op = op

\* C1: in any run, no Album owned by an Artist with parse_tracks=false is
\* created, and title, track_count and cover of an existing Album of such an
\* Artist are never modified.
C1_NoAlbumWorkForUnparsedArtist ==
    [][(\A b \in 1..Len(albums') :
          ~artists'[albums'[b].artist].parse_tracks =>
              /\ b <= Len(albums)
              /\ albums'[b].title = albums[b].title
              /\ albums'[b].track_count = albums[b].track_count
              /\ albums'[b].cover = albums[b].cover)]_vars

\* C2: at most one Track row per external id (yt_id), after any number of
\* track-discovery runs: a Track is created only when none has that id.
C2_OneTrackPerExternalId ==
    \A i, j \in 1..Len(tracks) : tracks[i].yt_id = tracks[j].yt_id => i = j

\* A later run has just met a track entry whose id is already stored.
C2_Witness ==
    /\ runs = 2
    /\ pc = "album_tracks"
    /\ LastOp(ev) = "track_get"
    /\ tracks # <<>>

\* C3: no step of the track-discovery pass changes title, order, duration or
\* album of a Track that is already stored, whatever the catalog lists.
C3_StoredTrackKept ==
    [][(\A t \in 1..Len(tracks) :
          /\ t <= Len(tracks')
          /\ tracks'[t].title = tracks[t].title
          /\ tracks'[t].order = tracks[t].order
          /\ tracks'[t].duration = tracks[t].duration
          /\ tracks'[t].album = tracks[t].album)]_vars

\* The pass has just met an entry for a stored Track that belongs to
\* another album, and the catalog lists that id with another title too.
C3_Witness ==
    /\ pc = "album_tracks"
    /\ LastOp(ev) = "track_get"
    /\ \E t \in 1..Len(tracks) :
          /\ tracks[t].yt_id = ev[Len(ev)].arg
          /\ tracks[t].album # Head(queue)
          /\ \E e \in catalog.trackEntries :
                e.videoId = tracks[t].yt_id /\ e.data.title # tracks[t].title

\* C4: the track-discovery pass works only on the Albums that had zero
\* Tracks when it started; an Album that had a Track then is never fetched
\* and its fields, its Tracks and their featured-artist links stay as they are.
C4_AlbumWithTracksUntouched ==
    [][(pc \in TracksPcs =>
          /\ Head(queue) \in sel.tracks
          /\ \A b \in (1..Len(albums)) \ sel.tracks :
                /\ albums'[b] = albums[b]
                /\ TracksOf(tracks', b) = TracksOf(tracks, b)
                /\ \A t \in TracksOf(tracks, b) : tracks'[t] = tracks[t])]_vars

\* C5: when get_artist raises for a selected artist, no row changes, nothing
\* but the failure is logged for it (no NFO, banner or album work), the run
\* does not abort and the loop moves on to the next selected artist.
C5_FetchFailureSkipsArtist ==
    [][((/\ pc = "artist_fetch"
        /\ ev' = <<Event("get_artist_raised", artists[Head(queue)].yt_id)>>) =>
          /\ artists' = artists
          /\ albums' = albums
          /\ tracks' = tracks
          /\ pc' # "crashed"
          /\ Len(queue) > 1 => (pc' = "artist_fetch" /\ queue' = Tail(queue)))]_vars

\* An artist was skipped after a failed fetch and the next selected artist
\* is about to be processed.
C5_Witness ==
    /\ pc = "artist_fetch"
    /\ LastOp(ev) = "get_artist_raised"
    /\ ev[1].arg # artists[Head(queue)].yt_id
    /\ Head(queue) \in sel.artist

\* C6: when get_album raises in the track-discovery pass, the exception is
\* caught, the album is skipped and the remaining selected albums are
\* processed in the same run.
C6_AlbumFetchFailureSkipsAlbum ==
    [][((/\ pc = "album_fetch"
        /\ Len(queue) > 1
        /\ ev' = <<Event("get_album_raised", albums[Head(queue)].yt_id)>>) =>
          /\ pc' = "album_fetch"
          /\ queue' = Tail(queue))]_vars

\* C7: a regular album of an artist listing is created only if no Album has
\* its external id: at most one Album per external id, after any number of runs.
C7_OneAlbumPerExternalId ==
    \A i, j \in 1..Len(albums) : albums[i].yt_id = albums[j].yt_id => i = j

\* In a second run, the listing of an artist named an album that is stored
\* already (one entry consumed, nothing created).
C7_Witness ==
    /\ runs = 2
    /\ pc = "artist_albums"
    /\ k = 1
    /\ ~Logged("album_create")
    /\ Len(albums) = 2

\* C8: an entry of the singles listing whose external id belongs to a stored
\* Album creates no new Album, and working through a singles listing never
\* leaves two Albums with the same external id.
C8_SinglesDedup ==
    [][((pc = "single_loop" /\ k' = k + 1) =>
          /\ \A b \in (Len(albums) + 1)..Len(albums') :
                ~AlbumExists(albums, albums'[b].yt_id)
          /\ \A i, j \in 1..Len(albums') :
                albums'[i].yt_id = albums'[j].yt_id => i = j)]_vars

\* An entry of a singles listing was worked on while every external id the
\* listing can name was stored: no Album was added.
C8_Witness ==
    /\ LastOp(ev) = "TypeError"
    /\ k = 1
    /\ \A single \in catalog.singleEntries : AlbumExists(albums, single.browseId)
    /\ Len(albums) = 2

\* C9 as claimed: no save ever changes the slug of a stored Artist.
C9_SlugNeverChanges ==
    [][(\A a \in 1..Len(artists) : artists'[a].slug = artists[a].slug)]_vars

\* C9, amended: no save changes the slug of a stored Artist whose slug is
\* not empty.
C9_NonEmptySlugNeverChanges ==
    [][(\A a \in 1..Len(artists) :
          artists[a].slug # <<>> => artists'[a].slug = artists[a].slug)]_vars

\* An artist stored with a blank name (slug "-1", beside another blank one)
\* has got its name from the catalog and kept its slug.
C9_Witness ==
    \E a \in 1..Len(artists) :
        /\ artists[a].slug = <<"-", "1">>
        /\ artists[a].name \in CatalogNames
        /\ artists[a].bio = "description"

\* C10: the artist pass selects the artists that meet the condition of every
\* flag set among --name, --banner, --album, and runs iff one of them is set;
\* the pp pass and the tracks pass run iff --pp, --tracks is set.
FlagHolds(f, a) ==
    IF f = "name" THEN artists[a].name = Blank
    ELSE IF f = "banner" THEN artists[a].banner = ""
    ELSE AlbumsOf(albums, a) = {} /\ artists[a].parse_tracks

ArtistFlags == {"name", "banner", "album"}

C10_PassesFollowFlags ==
    /\ [](/\ "artist" \in passes <=> (pc # "idle" /\ args \cap ArtistFlags # {})
          /\ "pp" \in passes => "pp" \in args
          /\ "tracks" \in passes => "tracks" \in args
          /\ pc = "done" => /\ "pp" \in args => "pp" \in passes
                            /\ "tracks" \in args => "tracks" \in passes)
    /\ [][((pc = "idle" /\ pc' # "idle" /\ args' \cap ArtistFlags # {}) =>
             sel'.artist = {a \in 1..Len(artists) :
                               \A f \in args' \cap ArtistFlags : FlagHolds(f, a)})]_vars

\* A run with --name and --album found an artist with a blank name and left
\* it out, because it does not meet the --album condition.
C10_Witness ==
    /\ pc # "idle"
    /\ {"name", "album"} \subseteq args
    /\ \E a \in 1..Len(artists) :
          a \notin sel.artist /\ artists[a].name = Blank /\ artists[a].bio = ""

\* The banner step is about to use a thumbnails answer of one of the sizes
\* cnts for an artist whose banner is empty.
BannerCase(cnts) ==
    /\ pc = "artist_banner_url"
    /\ artists[Head(queue)].banner = ""
    /\ ev[Len(ev)].arg \in cnts

\* C15: with an empty banner and two or more thumbnails in the answer, the
\* url fetched for the banner is the one at index 1 ("u1"), not the first
\* ("u0") and not the last of three ("u2").
C15_BannerFromSecondThumbnail ==
    [][(BannerCase({"2", "3"}) =>
          IF pc' = "crashed"
          THEN ev'[Len(ev')] = Event("HTTPError", "u1")
          ELSE artists'[Head(queue)].banner = "u1")]_vars

\* The banner of the artist being processed has just been fetched from "u1".
C15_Witness ==
    /\ pc = "artist_albums"
    /\ ev[Len(ev)] = Event("banner", "u1")
    /\ artists[Head(queue)].banner = "u1"

\* C17: with an empty banner and an empty thumbnails list in the answer, the
\* banner step raises nothing, fetches nothing and leaves the banner empty.
C17_EmptyThumbnailsSkipped ==
    [][(BannerCase({"0"}) =>
          /\ pc' # "crashed"
          /\ artists' = artists
          /\ \A i \in 1..Len(ev') : ev'[i].op \notin {"banner", "HTTPError"})]_vars

\* The artist being processed went past the banner step with its banner
\* still empty: the answer had an empty thumbnails list.
C17_Witness ==
    /\ pc = "artist_albums"
    /\ k = 0
    /\ Logged("nfo")
    /\ ~Logged("banner")
    /\ artists[Head(queue)].banner = ""

\* C18: with an empty banner and an answer that has no thumbnails key, or
\* fewer than two thumbnails, the banner step raises nothing, leaves the
\* banner empty and the artist goes on being processed.
C18_FewThumbnailsSkipped ==
    [][(BannerCase({"absent", "0", "1"}) =>
          /\ pc' # "crashed"
          /\ artists' = artists)]_vars

\* C16: whenever a cover is fetched (for a regular album just created, a
\* single just created, an album without cover in the tracks pass), its url is
\* the last entry of the thumbnails list: "y" of <<"x", "y">>, never "x".
C16_CoverFromLastThumbnail ==
    /\ \A b \in 1..Len(albums) : albums[b].cover \in {"", "old.jpg", "y", "z"}
    /\ \A i \in 1..Len(ev) : ev[i].op = "cover" => ev[i].arg \in {"y", "z"}

\* The tracks pass has just fetched the cover of an album that had none,
\* after an earlier run in which the artist pass had worked.
C16_Witness ==
    /\ pc = "album_tracks"
    /\ runs = 2
    /\ ev[Len(ev)] = Event("cover", "y")
    /\ albums[Head(queue)].cover = "y"
    /\ \E a \in 1..Len(artists) : artists[a].bio = "description"

\* The last call of write_metadata had n featured artists.
Tagged(n) == audio.written /\ Len(audio.job.featured) = n

\* C13 as claimed: the call writes "artists" when the track has more than one
\* featured artist and "artist" otherwise, exactly one of the two.
C13_ArtistsFieldIfMoreThanOne ==
    audio.written =>
        /\ "artists" \in DOMAIN audio.set <=> Len(audio.job.featured) > 1
        /\ "artist" \in DOMAIN audio.set <=> ~(Len(audio.job.featured) > 1)

\* C13, amended: the call writes "artists" when the track has at least one
\* featured artist and "artist" otherwise, exactly one of the two.
C13_ArtistsFieldIfAnyFeatured ==
    audio.written =>
        /\ "artists" \in DOMAIN audio.set <=> Len(audio.job.featured) >= 1
        /\ "artist" \in DOMAIN audio.set <=> Len(audio.job.featured) = 0
        /\ \A key \in DOMAIN audio.set : audio.tags[key] = audio.set[key]

\* A file that held the "artist" tag of an earlier call was tagged again,
\* for a track with exactly one featured artist.
C13_Witness ==
    /\ Tagged(1)
    /\ "artists" \in DOMAIN audio.set
    /\ "artist" \in DOMAIN audio.tags

\* The names of a list, each preceded by ";".
RECURSIVE Suffixes(_)
Suffixes(feat) ==
    IF feat = <<>> THEN <<>> ELSE <<";">> \o Head(feat) \o Suffixes(Tail(feat))

\* C14: for featured artists f1..fn, n >= 2, and primary artist p the call
\* sets "artists" to p;f1;...;fn and sets no "artist" field.
C14_PrimaryFirstThenFeatured ==
    (audio.written /\ Len(audio.job.featured) >= 2) =>
        /\ "artists" \in DOMAIN audio.set
        /\ audio.set["artists"] = audio.job.primary \o Suffixes(audio.job.featured)
        /\ audio.tags["artists"] = audio.set["artists"]
        /\ "artist" \notin DOMAIN audio.set

\* A file was tagged for primary "a B" with featured "A!" then "C".
C14_Witness ==
    /\ Tagged(2)
    /\ audio.job.primary = NameB
    /\ audio.job.featured = <<NameA, NameC>>
    /\ audio.set["artists"] = <<"a", " ", "B", ";", "A", "!", ";", "C">>

\* The step is a view answering the request `view` (it has set the response).
Served(view) ==
    /\ web'.out.view = view
    /\ web'.out # web.out
    /\ web'.ticks = web.ticks

\* C19: a password-reset token authorises at most one password change: no
\* token has two password changes by reset_password_view to its name, and
\* once a reset request with a token has succeeded, every reset request
\* answered after that with the same token is rejected (400).
C19_ResetTokenSingleUse ==
    /\ [](\A i, j \in 1..Len(web.resets) :
            (web.resets[i] = web.resets[j] /\ web.resets[i].op = "save") => i = j)
    /\ [][(\A i \in 1..Len(web.resets), new_password \in Passwords :
             (/\ web.resets[i].op = "ok"
              /\ Served("reset_password:" \o web.resets[i].token \o ":" \o new_password))
             => web'.out.status = 400)]_vars

\* A reset request that carried the stored, unused and unexpired token r1
\* and a valid new password has been answered: the password of the token's
\* user was not changed more than once (here: not at all).
C19_Witness ==
    /\ web.out.view = "reset_password:r1:long-enough"
    /\ \E i \in 1..Len(web.rtokens) :
          /\ web.rtokens[i].token = "r1"
          /\ IsValidProperty(web.rtokens[i], web.now)
          /\ web.users[web.rtokens[i].user].password = "pw0"

\* C20: verify_email_token, called with the string of a stored token that
\* is unused and not expired, answers valid (the view: 200); afterwards the
\* user is active, the profile has email_verified and the token is used.
C20_VerifyEmailActivates ==
    [][(\A i \in 1..Len(web.etokens) :
          LET tok == web.etokens[i]
          IN  (/\ Served("verify_email:" \o tok.token)
               /\ ~tok.is_used
               /\ web.now < tok.expires_at) =>
                /\ web'.out.status = 200
                /\ web'.users[tok.user].is_active
                /\ web'.users[tok.user].profile.exists
                /\ web'.users[tok.user].profile.email_verified
                /\ web'.etokens[i].is_used)]_vars

\* The tracks whose audio file is missing.
MissingFile == {t \in 1..Len(tracks) : tracks[t].track_file = ""}

\* C12: a Track whose audio file is attached is never selected or
\* downloaded again: a download run selects only tracks whose file is
\* missing when it starts, each once, and leaves every other track as it is.
C12_AttachedNeverSelectedAgain ==
    [][((pc = "idle" /\ "download" \in passes') =>
          /\ sel'.download \subseteq MissingFile
          /\ \A i, j \in 1..Len(queue') : queue'[i] = queue'[j] => i = j
          /\ \A t \in (1..Len(tracks)) \ MissingFile : tracks'[t] = tracks[t])]_vars

\* A second download run has been made while one track had its file
\* attached and another lacked it: the attached one was not selected.
C12_Witness ==
    /\ "download" \in passes
    /\ runs = 2
    /\ \E t, u \in 1..Len(tracks) :
          /\ tracks[t].track_file # ""
          /\ tracks[u].track_file = ""
          /\ t \notin sel.download

\* C21: request_password_reset_view answers a request for the email of a
\* registered user and a request for an email of no user alike: status 200
\* and the body 'Password reset email sent' in both cases.
C21_ResetRequestSameResponse ==
    [][(\A email \in Emails \ {""} :
          Served("request_password_reset:" \o email) =>
              /\ web'.out.status = 200
              /\ web'.out.body = "Password reset email sent")]_vars

\* C22: after any sequence of Album saves, two albums of the same title
\* included, no two Albums have the same slug.
C22_AlbumSlugsUnique ==
    \A i, j \in 1..Len(albums) : albums[i].slug = albums[j].slug => i = j

\* C23: no Track has the Artist that owns its album among its featured
\* artists, after any track-discovery run, whatever name that Artist is
\* stored under (blank, or different from the name in the catalog credit).
C23_PrimaryNeverFeatured ==
    \A t \in 1..Len(tracks) : albums[tracks[t].album].artist \notin tracks[t].featured

\* What one track entry has added to the log: the Track met, then one
\* event per call of featured_artists.add.
EntryLog == SubSeq(ev', Len(ev) + 1, Len(ev'))

\* C24: an Artist created by the track-discovery pass has parse_tracks =
\* false; an Artist that is stored already is left as it is, field by field;
\* and while one track entry is processed no artist is attached twice, nor
\* attached again when the Track already has it.
C24_FeaturedArtistsGetOrCreate ==
    [][((pc = "album_tracks" /\ k' = k + 1) =>
          /\ \A a \in 1..Len(artists) : artists'[a] = artists[a]
          /\ \A a \in (Len(artists) + 1)..Len(artists') : ~artists'[a].parse_tracks
          /\ \A i, j \in 2..Len(EntryLog) : EntryLog[i].arg = EntryLog[j].arg => i = j
          /\ \A i \in 2..Len(EntryLog), t \in 1..Len(tracks), a \in 1..Len(artists) :
                (tracks[t].yt_id = EntryLog[1].arg /\ artists[a].yt_id = EntryLog[i].arg)
                    => a \notin tracks[t].featured)]_vars

\* A track entry has just attached the stored artist UC2 and then UC3, which
\* it had to create: the new row does not parse tracks.
C24_Witness ==
    /\ pc = "album_tracks"
    /\ Len(ev) >= 2
    /\ ev[Len(ev) - 1] = Event("feature_add", "UC2")
    /\ ev[Len(ev)] = Event("feature_add", "UC3")
    /\ Len(artists) = 3
    /\ artists[3].yt_id = "UC3"
    /\ ~artists[3].parse_tracks

\* The steps of the artist pass that follow the NFO write.
AfterNfoPcs ==
    {"artist_banner", "artist_banner_url", "artist_albums", "artist_singles",
     "single_loop"}

\* C25: for an artist whose fetch succeeded, the NFO is written once, right
\* after the save of name and bio and ahead of every banner, album and
\* singles step of that artist, and it is written on every path that reaches
\* those steps, whatever the fetch brought.
C25_NfoOnceAfterSave ==
    /\ pc \in AfterNfoPcs => (Len(ev) >= 3 /\ ev[1].op = "get_artist")
    /\ (ev # <<>> /\ ev[1].op = "get_artist") =>
          /\ Len(ev) >= 2
          /\ ev[2] = Event("save", ev[1].arg)
          /\ \A i \in 1..Len(ev) :
                ev[i].op = "nfo" => (i = 3 /\ ev[i].arg = ev[1].arg)
          /\ \A i \in 3..Len(ev) :
                ev[i].op \notin {"nfo", "OSError"} => ev[3].op = "nfo"
          /\ pc \in AfterNfoPcs => ev[3].op = "nfo"

\* In a second run the NFO was written again for an artist whose name, bio
\* and banner an earlier run had stored: the fetch brought nothing new.
C25_Witness ==
    /\ runs = 2
    /\ pc = "artist_banner"
    /\ ev[3] = Event("nfo", artists[Head(queue)].yt_id)
    /\ artists[Head(queue)].banner = "u1"
    /\ artists[Head(queue)].bio = "description"
    /\ catalog.names = {artists[Head(queue)].name}

\* The singles listing is requested in this step (the request may fail).
SinglesFetched ==
    /\ Len(ev') > Len(ev)
    /\ ev'[Len(ev')].op \in {"get_artist_albums", "get_artist_albums_raised"}

\* An Album of type single is stored in this step.
SingleStored ==
    /\ Len(albums') > Len(albums)
    /\ albums'[Len(albums')].album_type = "single"

\* C26: the singles listing is requested, and single Albums are stored, only
\* for an artist with parse_tracks = true, whose response carries a singles
\* browseId, in a run started with --tracks.
C26_SinglesOnlyWhenGuarded ==
    [][((SinglesFetched \/ SingleStored) =>
          /\ pc \in {"artist_singles", "single_loop"}
          /\ artists[Head(queue)].parse_tracks
          /\ "tracks" \in args
          /\ \E i \in 1..Len(ev') : ev'[i] = Event("singles", "browseId"))]_vars

\* In a second run, started with --tracks, the singles listing of an artist
\* that parses tracks has just been fetched.
C26_Witness ==
    /\ runs = 2
    /\ pc = "single_loop"
    /\ ev[Len(ev)] = Event("get_artist_albums", "singles")
    /\ "tracks" \in args
    /\ artists[Head(queue)].parse_tracks

\* C27: nothing is rolled back when a unit raises. In the state an uncaught
\* exception leaves behind, the name and bio saved for the artist and every
\* Album created for it are stored, and so are the title and track_count
\* saved for the album of the track-discovery pass; and neither the raising
\* step nor the end of the process takes anything back from the rows stored
\* before (Tracks created for earlier albums included).
C27_NoRollback ==
    /\ []((pc = "crashed" /\ ev # <<>> /\ ev[1].op = "get_artist") =>
            LET a == Head(queue)
            IN  /\ artists[a].yt_id = ev[1].arg
                /\ artists[a].name \in catalog.names
                /\ artists[a].bio = "description"
                /\ \A i \in 1..Len(ev) :
                      ev[i].op = "album_create" =>
                          \E b \in 1..Len(albums) :
                              albums[b].yt_id = ev[i].arg /\ albums[b].artist = a)
    /\ []((pc = "crashed" /\ ev # <<>> /\ ev[1].op = "get_album") =>
            LET b == Head(queue)
            IN  /\ b <= Len(albums)
                /\ albums[b].yt_id = ev[1].arg
                /\ albums[b].title \in catalog.titles
                /\ \E c \in catalog.trackCounts : albums[b].track_count = c.value)
    /\ [][((pc' = "crashed" \/ pc = "crashed") =>
             /\ \A a \in 1..Len(artists) :
                   /\ a <= Len(artists')
                   /\ artists'[a].name = artists[a].name
                   /\ artists'[a].bio = artists[a].bio
             /\ \A b \in 1..Len(albums) :
                   /\ b <= Len(albums')
                   /\ albums'[b].title = albums[b].title
                   /\ albums'[b].track_count = albums[b].track_count
             /\ \A t \in 1..Len(tracks) : t <= Len(tracks') /\ tracks'[t] = tracks[t])]_vars

\* The cover download of an album just created for an artist raised: the run
\* is dead, the artist has its fetched name and bio, the album is stored.
C27_Witness ==
    /\ pc = "crashed"
    /\ ev[1].op = "get_artist"
    /\ ev[Len(ev)] = Event("HTTPError", "cover")
    /\ ev[Len(ev) - 1].op = "album_create"
    /\ artists[Head(queue)].bio = "description"
    /\ \E b \in 1..Len(albums) :
          albums[b].yt_id = ev[Len(ev) - 1].arg /\ albums[b].artist = Head(queue)

\* C30: when the track-discovery pass is through with an album whose
\* response listed at least one track, the album has a Track of its own (so
\* a later run does not select it again), also when the listed ids are
\* stored under another album.
C30_ProcessedAlbumHasTrack ==
    [][((pc = "album_tracks" /\ k >= 1 /\ pc' \notin {"album_tracks", "crashed"}) =>
          TracksOf(tracks', Head(queue)) # {})]_vars

\* The FollowedArtist rows of artist a.
FollowRowsOf(a) == {i \in 1..Len(web.follows) : web.follows[i].artist = a}

\* C28: whatever follow and unfollow requests are served one after the
\* other, there is at most one FollowedArtist row per (user, artist), and
\* followers changes only at the end of a request that created a row (by +1)
\* or deleted one (by -1, from a count of at least 1); such a request does
\* change it, and a repeated follow or an unfollow by a non-follower does not.
C28_FollowCountsRows ==
    /\ [](\A i, j \in 1..Len(web.follows) : web.follows[i] = web.follows[j] => i = j)
    /\ [][(\A a \in 1..Len(artists) :
             LET old == artists[a].followers
                 new == artists'[a].followers
                 made == {u \in Users : web.reqs[u].pc = "created" /\ web.reqs[u].pk = a
                                          /\ web'.reqs[u].pc = "idle"}
                 gone == {u \in Users : web.reqs[u].pc = "deleted" /\ web.reqs[u].pk = a
                                          /\ web'.reqs[u].pc = "idle"}
             IN  /\ new # old => (made # {} \/ gone # {})
                 /\ made # {} => new = old + 1
                 /\ gone # {} => (old >= 1 /\ new + 1 = old))]_vars

\* One user has followed artist 1; a second follow by that user was answered
\* 'already following' and an unfollow by another user 'not following': one
\* row, followers = 1.
C28_Witness ==
    /\ InFlight = {}
    /\ web.follows = <<FollowRow(1, 1)>>
    /\ artists[1].followers = 1
    /\ web.reqs[1].method = "POST" /\ web.reqs[1].status = 200
    /\ web.reqs[2].method = "DELETE" /\ web.reqs[2].pk = 1
    /\ web.reqs[2].status = 404

\* C29: with followers equal to the number of FollowedArtist rows at the
\* start, and follow/unfollow requests of different users served
\* concurrently (no account deleted meanwhile), followers equals the number
\* of rows again whenever no request is being served.
C29_ConcurrentFollowersMatchRows ==
    (InFlight = {} /\ \A i \in 1..Len(web.users) : ~web.users[i].deleted) =>
        \A a \in 1..Len(artists) : artists[a].followers = Cardinality(FollowRowsOf(a))

====
